---- MODULE Spec2Model ----
(***************************************************************************)
(* Custom canvas view of the graph plugin (src/src/main.ts, class          *)
(* CustomCanvasView): the document attribute store (front-matter           *)
(* patching), the in-memory graph model and the interaction controller.    *)
(*                                                                         *)
(* A document text is a sequence of characters (one-character strings),    *)
(* so the regular expressions and template strings of the source are       *)
(* modelled on the characters they read and write.                         *)
(***************************************************************************)
EXTENDS Integers, Sequences, FiniteSets, TLC

\* ------------------------------------------------------------------------
\* Characters
\* ------------------------------------------------------------------------

NL == "\n"

\* JavaScript \s (the members the modelled texts use)
SpaceChars == {" ", "\t", NL}

\* JavaScript line terminators: what "." does not match and where "$" with
\* the m flag matches
LineTerminators == {NL}

Digits == <<"0", "1", "2", "3", "4", "5", "6", "7", "8", "9">>

DigitChars == {Digits[i] : i \in 1..10}

\* JavaScript \w
WordChars ==
    DigitChars \cup {"_"} \cup
    {"a", "b", "c", "d", "e", "f", "g", "h", "i", "j", "k", "l", "m",
     "n", "o", "p", "q", "r", "s", "t", "u", "v", "w", "x", "y", "z"} \cup
    {"A", "B", "C", "D", "E", "F", "G", "H", "I", "J", "K", "L", "M",
     "N", "O", "P", "Q", "R", "S", "T", "U", "V", "W", "X", "Y", "Z"}

IsSpace(c) == c \in SpaceChars

IsLineTerminator(c) == c \in LineTerminators

IsWordChar(c) == c \in WordChars

Dash3 == <<"-", "-", "-">>

KeyNodeX == <<"n", "o", "d", "e", "_", "x">>

KeyNodeY == <<"n", "o", "d", "e", "_", "y">>

KeyNodeSize == <<"n", "o", "d", "e", "_", "s", "i", "z", "e">>

KeyEdges == <<"e", "d", "g", "e", "s">>

MdSuffix == <<".", "m", "d">>

\* ------------------------------------------------------------------------
\* String helpers
\* ------------------------------------------------------------------------

SetMin(S) == CHOOSE m \in S : \A k \in S : m <= k

SetMax(S) == CHOOSE m \in S : \A k \in S : m >= k

\* s.substring(i-1, j): the characters i..j, empty when j < i
Sub(s, i, j) == IF j < i THEN <<>> ELSE SubSeq(s, i, j)

\* the literal lit stands in s at index i
StartsWithAt(s, i, lit) ==
    /\ i >= 1
    /\ i + Len(lit) - 1 <= Len(s)
    /\ \A k \in 1..Len(lit) : s[i + k - 1] = lit[k]

EndsWith(s, lit) ==
    /\ Len(lit) <= Len(s)
    /\ StartsWithAt(s, Len(s) - Len(lit) + 1, lit)

\* greedy \s* from index i: the index of the first character it does not take
SkipSpaces(s, i) ==
    SetMin({j \in i..(Len(s) + 1) : j = Len(s) + 1 \/ ~IsSpace(s[j])})

\* greedy .* (no s flag) from index i: the index of the first character it
\* does not take
SkipToLineEnd(s, i) ==
    SetMin({j \in i..(Len(s) + 1) : j = Len(s) + 1 \/ IsLineTerminator(s[j])})

\* "^" with the m flag matches at index i
AtLineStart(s, i) == i = 1 \/ (i >= 2 /\ i <= Len(s) + 1 /\ IsLineTerminator(s[i - 1]))

\* "$" with the m flag matches at index i (before the character at i)
AtLineEnd(s, i) == i = Len(s) + 1 \/ (i <= Len(s) /\ IsLineTerminator(s[i]))

RECURSIVE NatChars(_)
NatChars(n) ==
    IF n < 10 THEN <<Digits[n + 1]>>
    ELSE NatChars(n \div 10) \o <<Digits[(n % 10) + 1]>>

\* `${n}` of an integer n
IntChars(n) == IF n < 0 THEN <<"-">> \o NatChars(0 - n) ELSE NatChars(n)

RECURSIVE Concat(_)
Concat(ss) == IF ss = <<>> THEN <<>> ELSE Head(ss) \o Concat(Tail(ss))

\* ------------------------------------------------------------------------
\* String.prototype.replace with a string replacement: the "$" patterns
\* ------------------------------------------------------------------------

\* GetSubstitution for a regular expression with nCaps capture groups
\* (nCaps <= 1 here), no named groups. "$" followed by a grave accent (the
\* text before the match) is left out: the modelled texts hold no grave
\* accent
RECURSIVE GetSubstitution(_, _, _, _, _)
GetSubstitution(repl, matched, after, cap1, nCaps) ==
    IF repl = <<>> THEN <<>>
    ELSE IF repl[1] = "$" /\ Len(repl) >= 2
    THEN LET d == repl[2]
             rest2 == Sub(repl, 3, Len(repl))
             rest3 == Sub(repl, 4, Len(repl))
             Go(r) == GetSubstitution(r, matched, after, cap1, nCaps)
         IN  IF d = "$" THEN <<"$">> \o Go(rest2)
             ELSE IF d = "&" THEN matched \o Go(rest2)
             ELSE IF d = "'" THEN after \o Go(rest2)
             ELSE IF d = "0" /\ Len(repl) >= 3 /\ repl[3] = "1" /\ nCaps >= 1
                  THEN cap1 \o Go(rest3)
             ELSE IF d = "1" /\ nCaps >= 1 THEN cap1 \o Go(rest2)
             ELSE <<"$">> \o Go(Sub(repl, 2, Len(repl)))
    ELSE <<repl[1]>> \o GetSubstitution(Tail(repl), matched, after, cap1, nCaps)

NoMatch == [ok |-> FALSE, from |-> 1, to |-> 0, cs |-> 1, ce |-> 0]

\* s.replace(regex, repl) for the first match m of regex in s
ReplaceMatch(s, m, repl, nCaps) ==
    IF ~m.ok THEN s
    ELSE LET before == Sub(s, 1, m.from - 1)
             after == Sub(s, m.to + 1, Len(s))
         IN  before
             \o GetSubstitution(repl, Sub(s, m.from, m.to), after,
                                Sub(s, m.cs, m.ce), nCaps)
             \o after

\* ------------------------------------------------------------------------
\* Attribute store: the regular expressions of the write-back
\* ------------------------------------------------------------------------

\* the tail \n---\s*\n of frontmatterRegex tried at index e: the index of the
\* last character it takes (greedy \s*, given back up to the last \n), or 0
CloseEnd(t, e) ==
    IF StartsWithAt(t, e, <<NL>> \o Dash3)
    THEN LET r == SkipSpaces(t, e + 4)
             nls == {j \in (e + 4)..(r - 1) : t[j] = NL}
         IN  IF nls = {} THEN 0 ELSE SetMax(nls)
    ELSE 0

\* frontmatterRegex with the opening ---\s*\n ending at index j: the lazy
\* group ([\s\S]*?) takes as little as lets the tail match
FrontmatterTry(t, j) ==
    LET es == {e \in (j + 1)..Len(t) : CloseEnd(t, e) # 0}
    IN  IF es = {} THEN NoMatch
        ELSE LET e == SetMin(es)
             IN  [ok |-> TRUE, from |-> 1, to |-> CloseEnd(t, e),
                  cs |-> j + 1, ce |-> e - 1]

\* content.match(/^---\s*\n([\s\S]*?)\n---\s*\n/): greedy \s* of the opening
\* marker is given back one character at a time until the rest matches
frontmatterRegex(t) ==
    IF ~StartsWithAt(t, 1, Dash3) THEN NoMatch
    ELSE LET r == SkipSpaces(t, 4)
             js == {j \in 4..(r - 1) : t[j] = NL /\ FrontmatterTry(t, j).ok}
         IN  IF js = {} THEN NoMatch ELSE FrontmatterTry(t, SetMax(js))

\* ^key\s*: tried at index p (m flag): the index of the colon, or 0
KeyColonAt(s, key, p) ==
    IF AtLineStart(s, p) /\ StartsWithAt(s, p, key)
    THEN LET c == SkipSpaces(s, p + Len(key))
         IN  IF c <= Len(s) /\ s[c] = ":" THEN c ELSE 0
    ELSE 0

\* frontmatter.match(/^key\s*:/m)
HasKey(s, key) == \E p \in 1..Len(s) : KeyColonAt(s, key, p) # 0

\* the first match of /^key\s*:.*$/m
KeyLineMatch(s, key) ==
    IF ~HasKey(s, key) THEN NoMatch
    ELSE LET p == SetMin({q \in 1..Len(s) : KeyColonAt(s, key, q) # 0})
             c == KeyColonAt(s, key, p)
         IN  [ok |-> TRUE, from |-> p, to |-> SkipToLineEnd(s, c + 1) - 1,
              cs |-> 1, ce |-> 0]

\* the lookahead (?=\n\w|\n---|$) of the edges expression at index n (m flag)
EdgesLookahead(s, n) ==
    \/ (n + 1 <= Len(s) /\ s[n] = NL /\ IsWordChar(s[n + 1]))
    \/ StartsWithAt(s, n, <<NL>> \o Dash3)
    \/ AtLineEnd(s, n)

\* the first match of /^edges\s*:.*?(?=\n\w|\n---|$)/ms: lazy .*? (s flag:
\* any character) takes as little as lets the lookahead hold
EdgesEntryMatch(s) ==
    IF ~HasKey(s, KeyEdges) THEN NoMatch
    ELSE LET p == SetMin({q \in 1..Len(s) : KeyColonAt(s, KeyEdges, q) # 0})
             c == KeyColonAt(s, KeyEdges, p)
             n == SetMin({q \in (c + 1)..(Len(s) + 1) : EdgesLookahead(s, q)})
         IN  [ok |-> TRUE, from |-> p, to |-> n - 1, cs |-> 1, ce |-> 0]

\* ------------------------------------------------------------------------
\* Numbers: exact rationals [n, d] in lowest terms, d > 0
\* ------------------------------------------------------------------------

Abs(i) == IF i < 0 THEN 0 - i ELSE i

RECURSIVE GCD(_, _)
GCD(a, b) == IF b = 0 THEN a ELSE GCD(b, a % b)

Rat(n, d) ==
    LET g == GCD(Abs(n), Abs(d))
        sg == IF d < 0 THEN 0 - 1 ELSE 1
    IN  [n |-> (sg * n) \div g, d |-> (sg * d) \div g]

RInt(i) == [n |-> i, d |-> 1]

\* sums and comparisons go through the least common denominator
RAdd(a, b) ==
    LET g == GCD(a.d, b.d)
    IN  Rat(a.n * (b.d \div g) + b.n * (a.d \div g), (a.d \div g) * b.d)

RSub(a, b) == RAdd(a, [n |-> 0 - b.n, d |-> b.d])

RMul(a, b) == Rat(a.n * b.n, a.d * b.d)

RDiv(a, b) == Rat(a.n * b.d, a.d * b.n)

RLt(a, b) ==
    LET g == GCD(a.d, b.d)
    IN  a.n * (b.d \div g) < b.n * (a.d \div g)

RLe(a, b) == ~RLt(b, a)

RMin(a, b) == IF RLe(a, b) THEN a ELSE b

RMax(a, b) == IF RLe(a, b) THEN b ELSE a

\* Math.round: the nearest integer, halves towards +infinity
MathRound(a) == (2 * a.n + a.d) \div (2 * a.d)

\* ------------------------------------------------------------------------
\* Attribute store: the text a write-back produces from the text it read
\* ------------------------------------------------------------------------

Colon == <<":", " ">>

\* `key: ${Math.round(v)}`
KeyLine(key, v) == key \o Colon \o IntChars(MathRound(v))

\* frontmatter with the key's line replaced, or the line appended
UpdateOrAddKey(frontmatter, key, v) ==
    IF HasKey(frontmatter, key)
    THEN ReplaceMatch(frontmatter, KeyLineMatch(frontmatter, key), KeyLine(key, v), 0)
    ELSE frontmatter \o <<NL>> \o KeyLine(key, v)

\* `---\n${frontmatter}\n---\n`
Fenced(frontmatter) == Dash3 \o <<NL>> \o frontmatter \o <<NL>> \o Dash3 \o <<NL>>

\* a block synthesized with the two coordinates exchanged
PositionBlockSwapped(content, x, y) ==
    Dash3 \o <<NL>> \o KeyLine(KeyNodeX, y) \o <<NL>>
        \o KeyLine(KeyNodeY, x) \o <<NL>> \o Dash3 \o <<NL, NL>> \o content

\* a write-back that never looks for the block of the content it read
PositionBlockPrepended(content, x, y) ==
    Dash3 \o <<NL>> \o KeyLine(KeyNodeX, x) \o <<NL>>
        \o KeyLine(KeyNodeY, y) \o <<NL>> \o Dash3 \o <<NL, NL>> \o content

\* saveNodePosition: the content written for the content read
saveNodePositionContent(content, x, y) ==
    LET match == frontmatterRegex(content)
    IN  IF match.ok
        THEN LET fm0 == Sub(content, match.cs, match.ce)
                 fm1 == UpdateOrAddKey(fm0, KeyNodeX, x)
                 fm2 == UpdateOrAddKey(fm1, KeyNodeY, y)
             IN  ReplaceMatch(content, match, Fenced(fm2), 1)
        ELSE Dash3 \o <<NL>> \o KeyLine(KeyNodeX, x) \o <<NL>>
             \o KeyLine(KeyNodeY, y) \o <<NL>> \o Dash3 \o <<NL, NL>> \o content

\* `  - "${e}"` lines joined by \n
RECURSIVE DashItems(_)
DashItems(es) ==
    IF es = <<>> THEN <<>>
    ELSE <<" ", " ", "-", " ", "\"">> \o Head(es) \o <<"\"">>
         \o (IF Len(es) > 1 THEN <<NL>> \o DashItems(Tail(es)) ELSE <<>>)

\* edgesYaml: inline for one target, dash-prefixed lines for more
edgesYaml(es) ==
    IF Len(es) = 1
    THEN KeyEdges \o <<":", " ", "[", "\"">> \o es[1] \o <<"\"", "]">>
    ELSE KeyEdges \o <<":", NL>> \o DashItems(es)

\* saveEdgesToFrontmatter: the content written for the content read and the
\* targets getEdgesForNode gives
saveEdgesContent(content, es) ==
    LET match == frontmatterRegex(content)
    IN  IF match.ok
        THEN LET fm0 == Sub(content, match.cs, match.ce)
                 fm1 == IF Len(es) > 0
                        THEN IF HasKey(fm0, KeyEdges)
                             THEN ReplaceMatch(fm0, EdgesEntryMatch(fm0), edgesYaml(es), 0)
                             ELSE fm0 \o <<NL>> \o edgesYaml(es)
                        ELSE IF HasKey(fm0, KeyEdges)
                             THEN ReplaceMatch(fm0, EdgesEntryMatch(fm0), <<>>, 0)
                             ELSE fm0
             IN  ReplaceMatch(content, match, Fenced(fm1), 1)
        ELSE IF Len(es) > 0
             THEN Dash3 \o <<NL>> \o edgesYaml(es) \o <<NL>> \o Dash3 \o <<NL, NL>> \o content
             ELSE content

\* ------------------------------------------------------------------------
\* Lines of a text, and the attribute block as the host delimits it
\* ------------------------------------------------------------------------

\* the index of the first \n of t at or after i, or Len(t) + 1
NextNL(t, i) == SetMin({j \in i..(Len(t) + 1) : j = Len(t) + 1 \/ t[j] = NL})

\* t.split("\n")
RECURSIVE Lines(_)
Lines(t) ==
    LET j == NextNL(t, 1)
    IN  IF j > Len(t) THEN <<t>>
        ELSE <<Sub(t, 1, j - 1)>> \o Lines(Sub(t, j + 1, Len(t)))

\* a marker line: --- and nothing else but trailing blanks
IsMarker(line) ==
    /\ StartsWithAt(line, 1, Dash3)
    /\ \A k \in 4..Len(line) : line[k] \in {" ", "\t"}

\* the index (in Lines(t)) of the closing marker line of the leading block,
\* or 0 when t does not start with a block
BlockCloseLine(t) ==
    LET ls == Lines(t)
        cs == {i \in 2..Len(ls) : IsMarker(ls[i])}
    IN  IF IsMarker(ls[1]) /\ cs # {} THEN SetMin(cs) ELSE 0

HasBlock(t) == BlockCloseLine(t) # 0

\* the lines between the two markers
BlockLines(t) == SubSeq(Lines(t), 2, BlockCloseLine(t) - 1)

\* the lines after the closing marker line
AfterBlockLines(t) == SubSeq(Lines(t), BlockCloseLine(t) + 1, Len(Lines(t)))

\* ------------------------------------------------------------------------
\* Host metadata cache: the front-matter of a document as a key/value map
\* (the subset of YAML the modelled documents use; any other shape of the
\* block is a parse failure, which leaves the document without front-matter)
\* ------------------------------------------------------------------------

\* a front-matter value: t is "none" (key absent), "null", "num", "str" or
\* "array" (of strings)
Val(t, num, items) == [t |-> t, num |-> num, items |-> items]

NoVal == Val("none", [n |-> 0, d |-> 1], <<>>)

NullVal == Val("null", [n |-> 0, d |-> 1], <<>>)

NumVal(r) == Val("num", r, <<>>)

StrVal(str) == Val("str", [n |-> 0, d |-> 1], <<str>>)

ArrayVal(items) == Val("array", [n |-> 0, d |-> 1], items)

\* s without its leading and trailing blanks
Trim(s) ==
    LET ks == {k \in 1..Len(s) : s[k] \notin {" ", "\t"}}
    IN  IF ks = {} THEN <<>> ELSE Sub(s, SetMin(ks), SetMax(ks))

IsAllDigits(s) == Len(s) >= 1 /\ \A k \in 1..Len(s) : s[k] \in DigitChars

DigitValue(c) == (CHOOSE i \in 1..10 : Digits[i] = c) - 1

RECURSIVE NatValue(_)
NatValue(s) ==
    IF s = <<>> THEN 0 ELSE 10 * NatValue(Sub(s, 1, Len(s) - 1)) + DigitValue(s[Len(s)])

RECURSIVE Pow10(_)
Pow10(k) == IF k = 0 THEN 1 ELSE 10 * Pow10(k - 1)

\* an unsigned decimal: digits, or digits "." digits
IsDecimal(s) ==
    LET dots == {k \in 1..Len(s) : s[k] = "."}
    IN  \/ IsAllDigits(s)
        \/ /\ Cardinality(dots) = 1
           /\ IsAllDigits(Sub(s, 1, SetMin(dots) - 1))
           /\ IsAllDigits(Sub(s, SetMin(dots) + 1, Len(s)))

DecimalValue(s) ==
    LET dots == {k \in 1..Len(s) : s[k] = "."}
    IN  IF dots = {} THEN RInt(NatValue(s))
        ELSE LET k == SetMin(dots)
                 frac == Sub(s, k + 1, Len(s))
             IN  Rat(NatValue(Sub(s, 1, k - 1)) * Pow10(Len(frac)) + NatValue(frac),
                     Pow10(Len(frac)))

IsNumber(s) ==
    IF Len(s) >= 1 /\ s[1] = "-" THEN IsDecimal(Tail(s)) ELSE IsDecimal(s)

NumberValue(s) ==
    IF s[1] = "-" THEN RSub(RInt(0), DecimalValue(Tail(s))) ELSE DecimalValue(s)

Unquote(s) ==
    IF Len(s) >= 2 /\ s[1] = "\"" /\ s[Len(s)] = "\"" THEN Sub(s, 2, Len(s) - 1) ELSE s

\* the items of a flow sequence body: a, b, c
RECURSIVE FlowItems(_)
FlowItems(body) ==
    LET cs == {k \in 1..Len(body) : body[k] = ","}
    IN  IF Trim(body) = <<>> THEN <<>>
        ELSE IF cs = {} THEN <<Unquote(Trim(body))>>
        ELSE <<Unquote(Trim(Sub(body, 1, SetMin(cs) - 1)))>>
             \o FlowItems(Sub(body, SetMin(cs) + 1, Len(body)))

\* the value of `key: text`
ScalarVal(text) ==
    LET s == Trim(text)
    IN  IF s = <<>> THEN NullVal
        ELSE IF IsNumber(s) THEN NumVal(NumberValue(s))
        ELSE IF s[1] = "[" /\ s[Len(s)] = "]" THEN ArrayVal(FlowItems(Sub(s, 2, Len(s) - 1)))
        ELSE StrVal(Unquote(s))

IsBlankLine(line) == Trim(line) = <<>>

\* `key: value` or `key:` starting in the first column
IsMappingLine(line) ==
    /\ Len(line) >= 1
    /\ line[1] \notin {" ", "\t", "-", "[", "\""}
    /\ \E k \in 1..Len(line) : line[k] = ":" /\ (k = Len(line) \/ line[k + 1] = " ")

MappingColon(line) ==
    SetMin({k \in 1..Len(line) : line[k] = ":" /\ (k = Len(line) \/ line[k + 1] = " ")})

MappingKey(line) == Trim(Sub(line, 1, MappingColon(line) - 1))

MappingText(line) == Sub(line, MappingColon(line) + 1, Len(line))

\* `- value` after any indentation
IsSequenceLine(line) ==
    LET s == Trim(line)
    IN  Len(s) >= 1 /\ s[1] = "-" /\ (Len(s) = 1 \/ s[2] = " ")

SequenceItem(line) == Unquote(Trim(Tail(Trim(line))))

\* the block's lines read in order: acc.map is the map so far (key -> Val),
\* acc.open the key whose dash-prefixed items are being read (or <<>>)
RECURSIVE ParseLines(_, _)
ParseLines(ls, acc) ==
    IF ~acc.ok \/ ls = <<>> THEN acc
    ELSE LET line == Head(ls)
         IN  IF IsBlankLine(line) THEN ParseLines(Tail(ls), acc)
             ELSE IF IsMappingLine(line)
             THEN LET key == MappingKey(line)
                      val == ScalarVal(MappingText(line))
                  IN  IF key \in DOMAIN acc.map
                      THEN [acc EXCEPT !.ok = FALSE]
                      ELSE ParseLines(Tail(ls),
                               [ok |-> TRUE,
                                map |-> [k \in DOMAIN acc.map \cup {key} |->
                                            IF k = key THEN val ELSE acc.map[k]],
                                open |-> IF val.t = "null" THEN key ELSE <<>>])
             ELSE IF IsSequenceLine(line) /\ acc.open # <<>>
             THEN LET old == acc.map[acc.open]
                      new == ArrayVal((IF old.t = "array" THEN old.items ELSE <<>>)
                                      \o <<SequenceItem(line)>>)
                  IN  ParseLines(Tail(ls), [acc EXCEPT !.map[acc.open] = new])
             ELSE [acc EXCEPT !.ok = FALSE]

NoFrontmatter ==
    [ok |-> FALSE, node_x |-> NoVal, node_y |-> NoVal, node_size |-> NoVal, edges |-> NoVal]

\* metadataCache.getFileCache(file).frontmatter for the text of the file
parseFrontmatter(t) ==
    IF ~HasBlock(t) THEN NoFrontmatter
    ELSE LET r == ParseLines(BlockLines(t), [ok |-> TRUE, map |-> <<>>, open |-> <<>>])
             Get(key) == IF key \in DOMAIN r.map THEN r.map[key] ELSE NoVal
         IN  IF ~r.ok \/ DOMAIN r.map = {} THEN NoFrontmatter
             ELSE [ok |-> TRUE, node_x |-> Get(KeyNodeX), node_y |-> Get(KeyNodeY),
                   node_size |-> Get(KeyNodeSize), edges |-> Get(KeyEdges)]

\* ------------------------------------------------------------------------
\* Documents of the vault
\* ------------------------------------------------------------------------

Str_A == <<"A", ".", "m", "d">>

Str_B == <<"B", ".", "m", "d">>

Str_C == <<"C", ".", "m", "d">>

\* vault.getMarkdownFiles(), in the order the host lists them
MarkdownFiles == <<Str_A, Str_B, Str_C>>

Paths == {MarkdownFiles[i] : i \in 1..Len(MarkdownFiles)}

\* the characters of the modelled texts in code-unit order
CharOrder ==
    <<"\t", NL, " ", "\"", "$", "&", "'", "-", ".", "/",
      "0", "1", "2", "3", "4", "5", "6", "7", "8", "9", ":",
      "A", "B", "C", "D", "E", "F", "G", "H", "I", "J", "K", "L", "M",
      "N", "O", "P", "Q", "R", "S", "T", "U", "V", "W", "X", "Y", "Z",
      "[", "]", "_",
      "a", "b", "c", "d", "e", "f", "g", "h", "i", "j", "k", "l", "m",
      "n", "o", "p", "q", "r", "s", "t", "u", "v", "w", "x", "y", "z", "|">>

CharCode(c) == CHOOSE i \in 1..Len(CharOrder) : CharOrder[i] = c

\* a < b on strings
RECURSIVE StrLess(_, _)
StrLess(a, b) ==
    IF b = <<>> THEN FALSE
    ELSE IF a = <<>> THEN TRUE
    ELSE IF a[1] = b[1] THEN StrLess(Tail(a), Tail(b))
    ELSE CharCode(a[1]) < CharCode(b[1])

\* ------------------------------------------------------------------------
\* The view: graph model, transform, interaction state
\* ------------------------------------------------------------------------

Null == 0

Pt(x, y) == [x |-> x, y |-> y]

DefaultNodeSize == 20

EdgeThreshold == 5

ZoomMin == Rat(1, 10)

ZoomMax == RInt(5)

\* canvas.width / devicePixelRatio and canvas.height / devicePixelRatio
CanvasWidth == 800

CanvasHeight == 600

\* a key that keeps the order of its arguments
getEdgeKeyAsGiven(source, target) == source \o <<"|">> \o target

getEdgeKey(source, target) ==
    IF StrLess(source, target) THEN source \o <<"|">> \o target
    ELSE target \o <<"|">> \o source

worldToScreen(v, worldX, worldY) ==
    Pt(RMul(RAdd(worldX, v.panOffset.x), v.zoom),
       RMul(RAdd(worldY, v.panOffset.y), v.zoom))

\* an inverse that takes the pan off before dividing by the zoom
screenToWorldPanFirst(v, screenX, screenY) ==
    Pt(RDiv(RSub(screenX, v.panOffset.x), v.zoom),
       RDiv(RSub(screenY, v.panOffset.y), v.zoom))

screenToWorld(v, screenX, screenY) ==
    Pt(RSub(RDiv(screenX, v.zoom), v.panOffset.x),
       RSub(RDiv(screenY, v.zoom), v.panOffset.y))

\* this.nodes.get(path): the object held under the id, or null
NodesGet(v, path) ==
    LET is == {i \in 1..Len(v.nodes) : v.heap[v.nodes[i]].id = path}
    IN  IF is = {} THEN Null ELSE v.nodes[SetMin(is)]

\* this.edges.has(key)
EdgesHas(edges, key) == \E i \in 1..Len(edges) : edges[i].key = key

RSq(a) == RMul(a, a)

\* (x - p.x)^2 + (y - p.y)^2
DistanceSq(x, y, p) == RAdd(RSq(RSub(x, p.x)), RSq(RSub(y, p.y)))

\* 0 <= half and d2 <= half^2
InRadius(d2, half) == RLe(RInt(0), half) /\ RLe(d2, RSq(half))

\* distance <= node.size / 2, on the squares
NodeHit(v, node, x, y) ==
    /\ node.size.t = "num"
    /\ InRadius(DistanceSq(x, y, worldToScreen(v, node.x, node.y)),
                RDiv(node.size.num, RInt(2)))

WithinNode(v, o, x, y) == NodeHit(v, v.heap[o], x, y)

\* getNodeAt: the last node of the map that the point lies in
getNodeAt(v, x, y) ==
    LET hits == {i \in 1..Len(v.nodes) : WithinNode(v, v.nodes[i], x, y)}
    IN  IF hits = {} THEN Null ELSE v.nodes[SetMax(hits)]

\* the path of the node at pos, or <<>> on empty canvas
PathAt(v, pos) ==
    IF getNodeAt(v, pos.x, pos.y) = Null THEN <<>>
    ELSE v.heap[getNodeAt(v, pos.x, pos.y)].path

\* the point of the segment from start along (C, D) at param, clamped to
\* its ends
ClosestPoint(start, end, C, D, param) ==
    IF RLt(param, RInt(0)) THEN start
    ELSE IF RLt(RInt(1), param) THEN end
    ELSE Pt(RAdd(start.x, RMul(param, C)), RAdd(start.y, RMul(param, D)))

SegmentParam(dot, lenSq) == IF lenSq.n # 0 THEN RDiv(dot, lenSq) ELSE RInt(0 - 1)

\* the closest point of the segment with direction (C, D) to the point at
\* (A, B) from start
ClosestOnSegment(start, end, A, B, C, D) ==
    ClosestPoint(start, end, C, D,
                 SegmentParam(RAdd(RMul(A, C), RMul(B, D)),
                              RAdd(RMul(C, C), RMul(D, D))))

SegmentDistanceSq(x, y, start, end) ==
    DistanceSq(x, y,
               ClosestOnSegment(start, end, RSub(x, start.x), RSub(y, start.y),
                                RSub(end.x, start.x), RSub(end.y, start.y)))

\* the square of the distance from (x, y) to the segment between two nodes
NodesDistanceSq(v, sourceNode, targetNode, x, y) ==
    SegmentDistanceSq(x, y, worldToScreen(v, sourceNode.x, sourceNode.y),
                      worldToScreen(v, targetNode.x, targetNode.y))

\* the square of the distance from (x, y) to the segment of edge e on screen
EdgeDistanceSq(v, e, x, y) ==
    NodesDistanceSq(v, v.heap[NodesGet(v, e.source)], v.heap[NodesGet(v, e.target)], x, y)

\* closestEdge and the square of closestDistance; edge 0 is null, with
\* closestDistance = Infinity
NoClosest == [edge |-> 0, distanceSq |-> RInt(0)]

\* the update of the loop that takes the first edge under the threshold
FirstUnderThreshold(closest, i, distanceSq) ==
    IF RLt(distanceSq, RSq(RInt(EdgeThreshold))) /\ closest.edge = 0
    THEN [edge |-> i, distanceSq |-> distanceSq]
    ELSE closest

\* if (distance < threshold && distance < closestDistance), on the squares
Closer(closest, i, distanceSq) ==
    IF /\ RLt(distanceSq, RSq(RInt(EdgeThreshold)))
       /\ (closest.edge = 0 \/ RLt(distanceSq, closest.distanceSq))
    THEN [edge |-> i, distanceSq |-> distanceSq]
    ELSE closest

\* the loop of getEdgeAt from the edge at index i on
RECURSIVE EdgeLoop(_, _, _, _, _)
EdgeLoop(v, x, y, i, closest) ==
    IF i > Len(v.edges) THEN closest.edge
    ELSE IF \/ NodesGet(v, v.edges[i].source) = Null
            \/ NodesGet(v, v.edges[i].target) = Null
    THEN EdgeLoop(v, x, y, i + 1, closest)
    ELSE EdgeLoop(v, x, y, i + 1,
                  Closer(closest, i, EdgeDistanceSq(v, v.edges[i], x, y)))

\* getEdgeAt: the index in this.edges of the edge returned, or 0
getEdgeAt(v, x, y) == EdgeLoop(v, x, y, 1, NoClosest)

\* getEdgesForNode: the targets of the edges whose source is nodePath
RECURSIVE TargetsOf(_, _)
TargetsOf(edges, nodePath) ==
    IF edges = <<>> THEN <<>>
    ELSE (IF Head(edges).source = nodePath THEN <<Head(edges).target>> ELSE <<>>)
         \o TargetsOf(Tail(edges), nodePath)

getEdgesForNode(v, nodePath) == TargetsOf(v.edges, nodePath)

VARIABLES
    missing           \* the documents deleted from the vault

\* vault.getAbstractFileByPath(path) finds a file
FileExists(path) == path \in Paths \ missing

\* an asynchronous write-back waiting for vault.read to resolve
ReadOp(kind, path, node) ==
    [kind |-> kind, path |-> path, node |-> node, phase |-> "read", content |-> <<>>]

\* saveEdgesToFrontmatter up to its await of vault.read
saveEdgesToFrontmatter(v, nodePath) ==
    IF ~FileExists(nodePath) THEN v
    ELSE [v EXCEPT !.ops = Append(@, ReadOp("edges", nodePath, Null))]

\* saveNodePosition up to its await of vault.read
saveNodePosition(v, node) ==
    IF ~FileExists(v.heap[node].path) THEN v
    ELSE [v EXCEPT !.ops = Append(@, ReadOp("pos", v.heap[node].path, node))]

\* an edge registered without a look at the keys this.edges holds
AddEdgeUnchecked(v, edge) ==
    saveEdgesToFrontmatter([v EXCEPT !.edges = Append(@, edge)], edge.source)

\* an edge registered and the list of its target written back
AddEdgeSavedOnTarget(v, edge) ==
    IF EdgesHas(v.edges, edge.key) THEN v
    ELSE saveEdgesToFrontmatter([v EXCEPT !.edges = Append(@, edge)], edge.target)

\* createEdge once the key is computed
AddEdge(v, edge) ==
    IF EdgesHas(v.edges, edge.key) THEN v
    ELSE saveEdgesToFrontmatter([v EXCEPT !.edges = Append(@, edge)], edge.source)

createEdge(v, source, target) ==
    AddEdge(v, [key |-> getEdgeKey(v.heap[source].path, v.heap[target].path),
                source |-> v.heap[source].path,
                target |-> v.heap[target].path])

\* this.edges.delete(edgeKey), then the write-back for the source
RemoveEdge(v, edgeKey, source) ==
    saveEdgesToFrontmatter([v EXCEPT !.edges = SelectSeq(@, LAMBDA e : e.key # edgeKey)],
                           source)

\* deleteEdge of the edge at index i of this.edges
deleteEdge(v, i) ==
    RemoveEdge(v, getEdgeKey(v.edges[i].source, v.edges[i].target), v.edges[i].source)

\* toFixed(2) as a number
ToFixed2(r) == Rat(MathRound(RMul(r, RInt(100))), 100)

getCenterWorldCoordinate(v) ==
    IF CanvasWidth = 0 \/ CanvasHeight = 0 THEN Pt(RInt(0), RInt(0))
    ELSE screenToWorld(v, Rat(CanvasWidth, 2), Rat(CanvasHeight, 2))

\* the three fields of the control strip set from zoom and the centre
SetInputs(v, center) ==
    [v EXCEPT !.zoomInput = ToFixed2(v.zoom),
              !.centerXInput = RInt(MathRound(center.x)),
              !.centerYInput = RInt(MathRound(center.y))]

updateInputsFromState(v) ==
    IF v.isUpdatingFromInputs \/ CanvasWidth = 0 \/ CanvasHeight = 0 THEN v
    ELSE SetInputs(v, getCenterWorldCoordinate(v))

\* ------------------------------------------------------------------------
\* loadNodes: the model rebuilt from the metadata cache
\* ------------------------------------------------------------------------

\* the node objects the controller and its pending write-backs still hold
HeldObjects(v) ==
    ({v.selectedNode, v.edgeSourceNode}
        \cup {v.ops[i].node : i \in 1..Len(v.ops)}) \ {Null}

\* a new object: an identity no object in use has
NewObject(used) == SetMin({o \in 1..(Cardinality(used) + 1) : o \notin used})

\* cache.frontmatter.node_size || 20
NodeSizeOr(val) ==
    IF \/ val.t \in {"none", "null"}
       \/ (val.t = "num" /\ val.num.n = 0)
       \/ (val.t = "str" /\ val.items = <<<<>>>>)
    THEN NumVal(RInt(DefaultNodeSize))
    ELSE val

\* the loop over a file's edges array
RECURSIVE LoadEdges(_, _, _)
LoadEdges(path, items, edges) ==
    IF items = <<>> THEN edges
    ELSE LET targetPath == Head(items)
             normalizedTarget ==
                 IF EndsWith(targetPath, MdSuffix) THEN targetPath
                 ELSE targetPath \o MdSuffix
             edgeKey == getEdgeKey(path, normalizedTarget)
         IN  IF /\ targetPath # path
                /\ FileExists(normalizedTarget)
                /\ ~EdgesHas(edges, edgeKey)
             THEN LoadEdges(path, Tail(items),
                      Append(edges, [key |-> edgeKey, source |-> path,
                                     target |-> normalizedTarget]))
             ELSE LoadEdges(path, Tail(items), edges)

\* the loop over the files
RECURSIVE LoadFiles(_, _, _)
LoadFiles(files, fmOf, acc) ==
    IF files = <<>> THEN acc
    ELSE LET path == Head(files)
             fm == fmOf[path]
         IN  IF fm.ok /\ fm.node_x.t = "num" /\ fm.node_y.t = "num"
             THEN LET o == NewObject(DOMAIN acc.heap)
                      node == [id |-> path, path |-> path,
                               x |-> fm.node_x.num, y |-> fm.node_y.num,
                               size |-> NodeSizeOr(fm.node_size)]
                  IN  LoadFiles(Tail(files), fmOf,
                          [heap |-> [k \in DOMAIN acc.heap \cup {o} |->
                                        IF k = o THEN node ELSE acc.heap[k]],
                           nodes |-> Append(acc.nodes, o),
                           edges |-> IF fm.edges.t = "array"
                                     THEN LoadEdges(path, fm.edges.items, acc.edges)
                                     ELSE acc.edges])
             ELSE LoadFiles(Tail(files), fmOf, acc)

\* loadNodes without this.nodes.clear(): the nodes of the last load stay
loadNodesKeeping(v, fmOf) ==
    LET r == LoadFiles(SelectSeq(MarkdownFiles, FileExists), fmOf,
                       [heap |-> v.heap, nodes |-> v.nodes, edges |-> <<>>])
    IN  [v EXCEPT !.heap = r.heap, !.nodes = r.nodes, !.edges = r.edges]

\* loadNodes with the front-matter the metadata cache holds
loadNodes(v, fmOf) ==
    LET held == HeldObjects(v)
        r == LoadFiles(SelectSeq(MarkdownFiles, FileExists), fmOf,
                       [heap |-> [k \in held |-> v.heap[k]], nodes |-> <<>>, edges |-> <<>>])
    IN  [v EXCEPT !.heap = r.heap, !.nodes = r.nodes, !.edges = r.edges]

\* ------------------------------------------------------------------------
\* Event handlers
\* ------------------------------------------------------------------------

\* selectedNode, isDragging and dragOffset at the start of a drag
BeginDrag(v, node, pos, screenPos) ==
    [v EXCEPT !.selectedNode = node,
              !.isDragging = TRUE,
              !.dragOffset = Pt(RSub(pos.x, screenPos.x), RSub(pos.y, screenPos.y))]

BeginPan(v, pos) == [v EXCEPT !.isPanning = TRUE, !.lastPanPoint = pos]

\* onMouseDown once getNodeAt and getEdgeAt have answered
\* a press handler that deletes the edge under the pointer whether or not a
\* node is there
MouseDownEdgeFirst(v, pos, button, shiftKey, node, edge) ==
    IF button = 2 /\ edge # 0 THEN deleteEdge(v, edge)
    ELSE IF shiftKey /\ edge # 0 THEN deleteEdge(v, edge)
    ELSE IF shiftKey /\ node # Null THEN [v EXCEPT !.edgeSourceNode = node]
    ELSE IF node # Null
    THEN BeginDrag(v, node, pos, worldToScreen(v, v.heap[node].x, v.heap[node].y))
    ELSE BeginPan(v, pos)

MouseDownOn(v, pos, button, shiftKey, node, edge) ==
    IF button = 2 /\ edge # 0 /\ node = Null THEN deleteEdge(v, edge)
    ELSE IF shiftKey /\ edge # 0 /\ node = Null THEN deleteEdge(v, edge)
    ELSE IF shiftKey /\ node # Null THEN [v EXCEPT !.edgeSourceNode = node]
    ELSE IF node # Null
    THEN BeginDrag(v, node, pos, worldToScreen(v, v.heap[node].x, v.heap[node].y))
    ELSE BeginPan(v, pos)

onMouseDown(v, pos, button, shiftKey) ==
    MouseDownOn(v, pos, button, shiftKey,
                getNodeAt(v, pos.x, pos.y), getEdgeAt(v, pos.x, pos.y))

\* node.x, node.y of the selected node
MoveSelected(v, worldPos) ==
    [v EXCEPT !.heap[v.selectedNode].x = worldPos.x,
              !.heap[v.selectedNode].y = worldPos.y]

\* a drag branch that writes the position back on every move
DragToSaving(v, pos) ==
    saveNodePosition(
        MoveSelected(v, screenToWorld(v, RSub(pos.x, v.dragOffset.x),
                                         RSub(pos.y, v.dragOffset.y))),
        v.selectedNode)

\* the drag branch shared by onMouseMove and onTouchMove
DragTo(v, pos) ==
    MoveSelected(v, screenToWorld(v, RSub(pos.x, v.dragOffset.x),
                                     RSub(pos.y, v.dragOffset.y)))

PanBy(v, pos, deltaX, deltaY) ==
    updateInputsFromState(
        [v EXCEPT !.panOffset = Pt(RAdd(@.x, RDiv(deltaX, v.zoom)),
                                   RAdd(@.y, RDiv(deltaY, v.zoom))),
                  !.lastPanPoint = pos])

\* the pan branch shared by onMouseMove and onTouchMove
PanTo(v, pos) ==
    PanBy(v, pos, RSub(pos.x, v.lastPanPoint.x), RSub(pos.y, v.lastPanPoint.y))

onMouseMove(v, pos) ==
    IF v.isDragging /\ v.selectedNode # Null THEN DragTo(v, pos)
    ELSE IF v.isPanning THEN PanTo(v, pos)
    ELSE IF v.edgeSourceNode # Null THEN [v EXCEPT !.lastPanPoint = pos]
    ELSE v

\* the edge-creation branch of onMouseUp once getNodeAt has answered
FinishEdge(v, targetNode) ==
    [(IF targetNode # Null /\ targetNode # v.edgeSourceNode
      THEN createEdge(v, v.edgeSourceNode, targetNode)
      ELSE v) EXCEPT !.edgeSourceNode = Null]

ReleaseEdge(v, pos) ==
    IF v.edgeSourceNode # Null THEN FinishEdge(v, getNodeAt(v, pos.x, pos.y)) ELSE v

\* the drag branch shared by onMouseUp and onTouchEnd
ReleaseDrag(v) ==
    IF v.isDragging /\ v.selectedNode # Null
    THEN [saveNodePosition(v, v.selectedNode)
              EXCEPT !.selectedNode = Null, !.isDragging = FALSE]
    ELSE v

\* the pan branch shared by onMouseUp and onTouchEnd
ReleasePan(v) == IF v.isPanning THEN [v EXCEPT !.isPanning = FALSE] ELSE v

onMouseUp(v, pos) == ReleasePan(ReleaseDrag(ReleaseEdge(v, pos)))

\* a 'mouseleave' handler that cancels edge creation and does no more
onMouseLeaveCancelOnly(v, pos) ==
    IF v.edgeSourceNode # Null THEN [v EXCEPT !.edgeSourceNode = Null] ELSE v

onMouseLeave(v, pos) ==
    onMouseUp(IF v.edgeSourceNode # Null THEN [v EXCEPT !.edgeSourceNode = Null] ELSE v,
              pos)

\* onTouchStart once getNodeAt has answered
TouchStartOn(v, pos, node) ==
    IF node # Null
    THEN BeginDrag(v, node, pos, worldToScreen(v, v.heap[node].x, v.heap[node].y))
    ELSE BeginPan(v, pos)

\* onTouchStart with one touch
onTouchStart(v, pos) == TouchStartOn(v, pos, getNodeAt(v, pos.x, pos.y))

\* onTouchMove with one touch
onTouchMove(v, pos) ==
    IF ~(v.isDragging \/ v.isPanning) THEN v
    ELSE IF v.isDragging /\ v.selectedNode # Null THEN DragTo(v, pos)
    ELSE IF v.isPanning THEN PanTo(v, pos)
    ELSE v

onTouchEnd(v) == ReleasePan(ReleaseDrag(v))

\* the keydown handler for Escape
onKeyDownEscape(v) ==
    IF v.edgeSourceNode # Null THEN [v EXCEPT !.edgeSourceNode = Null] ELSE v

\* panOffset += worldPos - newWorldPos
AdjustPan(v, worldPos, newWorldPos) ==
    updateInputsFromState(
        [v EXCEPT !.panOffset = Pt(RAdd(@.x, RSub(worldPos.x, newWorldPos.x)),
                                   RAdd(@.y, RSub(worldPos.y, newWorldPos.y)))])

\* onWheel after this.zoom is set: v1 holds the new zoom
ZoomAt(v1, pos, worldPos) == AdjustPan(v1, worldPos, screenToWorld(v1, pos.x, pos.y))

\* a wheel handler without the limits on the zoom
onWheelUnlimited(v, pos, deltaYPositive) ==
    ZoomAt([v EXCEPT !.zoom = RMul(@, IF deltaYPositive THEN Rat(9, 10) ELSE Rat(11, 10))],
           pos, screenToWorld(v, pos.x, pos.y))

onWheel(v, pos, deltaYPositive) ==
    ZoomAt([v EXCEPT !.zoom =
               RMax(ZoomMin,
                    RMin(ZoomMax,
                         RMul(@, IF deltaYPositive THEN Rat(9, 10) ELSE Rat(11, 10))))],
           pos, screenToWorld(v, pos.x, pos.y))

\* the index of the first character at or after i that is not a digit
DigitsEnd(s, i) ==
    SetMin({j \in i..(Len(s) + 1) : j = Len(s) + 1 \/ s[j] \notin DigitChars})

\* digits, then "." and digits if a "." follows, as a number; NaN without a
\* digit
FloatFrom(s, i, a) ==
    LET b == IF a <= Len(s) /\ s[a] = "." THEN DigitsEnd(s, a + 1) ELSE a
        frac == IF b > a THEN Sub(s, a + 1, b - 1) ELSE <<>>
    IN  IF a = i /\ frac = <<>> THEN [nan |-> TRUE, num |-> RInt(0)]
        ELSE [nan |-> FALSE,
              num |-> Rat(NatValue(Sub(s, i, a - 1)) * Pow10(Len(frac)) + NatValue(frac),
                          Pow10(Len(frac)))]

\* the number from index i on, after a sign
SignedFrom(s, i) ==
    IF i <= Len(s) /\ s[i] = "-"
    THEN [FloatFrom(s, i + 1, DigitsEnd(s, i + 1)) EXCEPT !.num = RSub(RInt(0), @)]
    ELSE IF i <= Len(s) /\ s[i] = "+" THEN FloatFrom(s, i + 1, DigitsEnd(s, i + 1))
    ELSE FloatFrom(s, i, DigitsEnd(s, i))

\* parseFloat: the longest leading decimal number after blanks (exponents
\* and Infinity are not among the texts modelled)
parseFloat(s) == SignedFrom(s, SkipSpaces(s, 1))

\* a recentring that takes the zoom for 1
setCenterAtUnitZoom(v, worldX, worldY) ==
    IF CanvasWidth = 0 \/ CanvasHeight = 0 THEN v
    ELSE [v EXCEPT !.panOffset = Pt(RSub(Rat(CanvasWidth, 2), worldX),
                                    RSub(Rat(CanvasHeight, 2), worldY))]

setCenterWorldCoordinate(v, worldX, worldY) ==
    IF CanvasWidth = 0 \/ CanvasHeight = 0 THEN v
    ELSE [v EXCEPT !.panOffset = Pt(RSub(RDiv(Rat(CanvasWidth, 2), v.zoom), worldX),
                                    RSub(RDiv(Rat(CanvasHeight, 2), v.zoom), worldY))]

\* updateZoomFromInput once the field's number is clamped: centerBefore is
\* the centre under the zoom before
ZoomTo(v, clampedZoom, centerBefore) ==
    [setCenterWorldCoordinate([v EXCEPT !.zoom = clampedZoom],
                              centerBefore.x, centerBefore.y)
         EXCEPT !.zoomInput = ToFixed2(clampedZoom)]

\* updateZoomFromInput without its first line, the return while the
\* fields are being written
ZoomFromNumberUnguarded(v, newZoom) ==
    IF newZoom.nan THEN v
    ELSE ZoomTo(v, RMax(ZoomMin, RMin(ZoomMax, newZoom.num)), getCenterWorldCoordinate(v))

\* updateZoomFromInput with newZoom = parseFloat(this.zoomInput.value)
ZoomFromNumber(v, newZoom) ==
    IF v.isUpdatingFromInputs \/ newZoom.nan THEN v
    ELSE ZoomTo(v, RMax(ZoomMin, RMin(ZoomMax, newZoom.num)), getCenterWorldCoordinate(v))

\* text is the value of the zoom field
updateZoomFromInput(v, text) == ZoomFromNumber(v, parseFloat(text))

\* updateCenterFromInputs with the two numbers parsed
CenterFromNumbers(v, centerX, centerY) ==
    IF v.isUpdatingFromInputs \/ centerX.nan \/ centerY.nan THEN v
    ELSE [setCenterWorldCoordinate(v, centerX.num, centerY.num)
              EXCEPT !.centerXInput = centerX.num, !.centerYInput = centerY.num]

\* textX, textY are the values of the two centre fields
updateCenterFromInputs(v, textX, textY) ==
    CenterFromNumbers(v, parseFloat(textX), parseFloat(textY))

\* a write-back after its read resolved with content: the text it goes on
\* to write
ContentToWrite(v, op, content) ==
    IF op.kind = "pos"
    THEN saveNodePositionContent(content, v.heap[op.node].x, v.heap[op.node].y)
    ELSE saveEdgesContent(content, getEdgesForNode(v, op.path))

\* ------------------------------------------------------------------------
\* Store specification: a write-back applied to a document, and again
\* ------------------------------------------------------------------------

VARIABLES
    doc,        \* the document text
    before,     \* the text the last write-back read
    patchKind,  \* "pos": saveNodePosition, "edges": saveEdgesToFrontmatter
    patchX,     \* node.x
    patchY,     \* node.y
    patchEdges, \* getEdgesForNode(nodePath)
    writes      \* write-backs applied so far

VARIABLES
    vault,            \* path -> text of the document
    cache,            \* path -> front-matter the metadata cache holds
    stale,            \* paths written since the cache last read them
    heap,             \* node objects: identity -> fields
    nodes,            \* this.nodes: the objects in insertion order
    edges,            \* this.edges: the entries in insertion order
    selectedNode,
    edgeSourceNode,
    isDragging,
    isPanning,
    dragOffset,
    panOffset,
    lastPanPoint,
    zoom,
    zoomInput,
    centerXInput,
    centerYInput,
    isUpdatingFromInputs,
    ops,              \* write-backs in flight
    gestures,         \* presses and touches so far
    wheels,           \* wheel events so far
    created,          \* the edges createEdge has added so far
    deleted,          \* the edges deleteEdge has removed so far
    released,         \* the drag releases so far: path and world position
    dupCalls,         \* createEdge calls for a pair that had an edge
    errors,           \* console.error entries so far
    abandoned,        \* write-backs given up so far
    clicks,           \* presses followed by a release at the same point
    leaves            \* times the pointer left the canvas during a drag or pan

VARIABLES
    loadOnlyCurrentDirectory, \* settings.loadOnlyCurrentDirectory
    activeFile,        \* workspace.getActiveFile(), NoFile for none
    leafFile,          \* the file of the first markdown leaf, NoFile for none
    files,             \* files of loadNodes after its filter, at the last load
    loadedFrom         \* the file whose folder was the current directory
                       \* at the last load, NoFile for none

dirVars == <<loadOnlyCurrentDirectory, activeFile, leafFile, files, loadedFrom>>

VARIABLES
    handler            \* the handler that is writing the fields of the control
                       \* strip, and whether a field's listener was called
                       \* while it does

\* no handler is writing the fields
NoHandler == [by |-> "none", reentered |-> FALSE]

storeVars == <<doc, before, patchKind, patchX, patchY, patchEdges, writes>>

hostVars == <<vault, cache, stale, missing>>

viewVars ==
    <<heap, nodes, edges, selectedNode, edgeSourceNode, isDragging, isPanning,
      dragOffset, panOffset, lastPanPoint, zoom, zoomInput, centerXInput,
      centerYInput, isUpdatingFromInputs, ops>>

histVars ==
    <<gestures, wheels, created, deleted, released, dupCalls, errors, abandoned, clicks, leaves>>

vars == <<storeVars, hostVars, viewVars, histVars, dirVars, handler>>

\* the view as the handlers take it
View ==
    [heap |-> heap, nodes |-> nodes, edges |-> edges,
     selectedNode |-> selectedNode, edgeSourceNode |-> edgeSourceNode,
     isDragging |-> isDragging, isPanning |-> isPanning,
     dragOffset |-> dragOffset, panOffset |-> panOffset,
     lastPanPoint |-> lastPanPoint, zoom |-> zoom, zoomInput |-> zoomInput,
     centerXInput |-> centerXInput, centerYInput |-> centerYInput,
     isUpdatingFromInputs |-> isUpdatingFromInputs, ops |-> ops]

\* the objects something still refers to
Reachable(v) == {v.nodes[i] : i \in 1..Len(v.nodes)} \cup HeldObjects(v)

\* the view after a handler returned v
SetView(v) ==
    /\ heap' = [k \in Reachable(v) |-> v.heap[k]]
    /\ nodes' = v.nodes
    /\ edges' = v.edges
    /\ selectedNode' = v.selectedNode
    /\ edgeSourceNode' = v.edgeSourceNode
    /\ isDragging' = v.isDragging
    /\ isPanning' = v.isPanning
    /\ dragOffset' = v.dragOffset
    /\ panOffset' = v.panOffset
    /\ lastPanPoint' = v.lastPanPoint
    /\ zoom' = v.zoom
    /\ zoomInput' = v.zoomInput
    /\ centerXInput' = v.centerXInput
    /\ centerYInput' = v.centerYInput
    /\ isUpdatingFromInputs' = v.isUpdatingFromInputs
    /\ ops' = v.ops

\* the fields at construction
NewView ==
    [heap |-> <<>>, nodes |-> <<>>, edges |-> <<>>,
     selectedNode |-> Null, edgeSourceNode |-> Null,
     isDragging |-> FALSE, isPanning |-> FALSE,
     dragOffset |-> Pt(RInt(0), RInt(0)), panOffset |-> Pt(RInt(0), RInt(0)),
     lastPanPoint |-> Pt(RInt(0), RInt(0)), zoom |-> RInt(1),
     zoomInput |-> RInt(1), centerXInput |-> RInt(0), centerYInput |-> RInt(0),
     isUpdatingFromInputs |-> FALSE, ops |-> <<>>]

\* onOpen: loadNodes, then the fields of the control strip
OpenView(fmOf) == updateInputsFromState(loadNodes(NewView, fmOf))

ViewIs(v) ==
    /\ heap = v.heap
    /\ nodes = v.nodes
    /\ edges = v.edges
    /\ selectedNode = v.selectedNode
    /\ edgeSourceNode = v.edgeSourceNode
    /\ isDragging = v.isDragging
    /\ isPanning = v.isPanning
    /\ dragOffset = v.dragOffset
    /\ panOffset = v.panOffset
    /\ lastPanPoint = v.lastPanPoint
    /\ zoom = v.zoom
    /\ zoomInput = v.zoomInput
    /\ centerXInput = v.centerXInput
    /\ centerYInput = v.centerYInput
    /\ isUpdatingFromInputs = v.isUpdatingFromInputs
    /\ ops = v.ops

MaxBlockLines == 3

MaxWrites == 2

Q(s) == <<"\"">> \o s \o <<"\"">>

LinePool ==
    { KeyNodeX \o Colon \o <<"1">>,
      KeyNodeY \o Colon \o <<"2">>,
      <<"k">> \o Colon \o <<"$", "$">>,
      KeyEdges \o Colon \o <<"[">> \o Q(Str_A) \o <<"]">>,
      KeyEdges \o <<":">>,
      <<" ", " ", "-", " ">> \o Q(Str_A),
      <<>> }

TailPool == { <<>>, <<"b">>, <<NL, "b">> }

RECURSIVE JoinLines(_)
JoinLines(ls) == IF ls = <<>> THEN <<>> ELSE Head(ls) \o <<NL>> \o JoinLines(Tail(ls))

MakeDoc(ls, tail) == Dash3 \o <<NL>> \o JoinLines(ls) \o Dash3 \o <<NL>> \o tail

DocTexts ==
    TailPool \cup
    { MakeDoc(ls, tail) :
        ls \in UNION {[1..n -> LinePool] : n \in 0..MaxBlockLines},
        tail \in TailPool }

PatchCoords == { RInt(5), Rat(0 - 5, 2) }

PatchEdgeLists == { <<>>, <<Str_A>>, <<Str_A, Str_B>> }

\* nothing has happened yet
NoHistory ==
    /\ gestures = 0
    /\ wheels = 0
    /\ created = <<>>
    /\ deleted = <<>>
    /\ released = <<>>
    /\ dupCalls = 0
    /\ errors = 0
    /\ abandoned = 0
    /\ clicks = <<>>
    /\ leaves = 0

\* no document in the vault, the view just opened
IdleHost ==
    /\ vault = [p \in Paths |-> <<>>]
    /\ cache = [p \in Paths |-> NoFrontmatter]
    /\ stale = {}
    /\ missing = {}
    /\ NoHistory
    /\ ViewIs(OpenView([p \in Paths |-> NoFrontmatter]))

\* ------------------------------------------------------------------------
\* The current-directory filter of loadNodes
\* ------------------------------------------------------------------------

NoFile == <<>>

\* vault.getMarkdownFiles() of a vault with folders
DirFiles ==
    <<<<"x", ".", "m", "d">>,
      <<"f", "o", "l", "d", "e", "r", "/", "a", ".", "m", "d">>,
      <<"f", "o", "l", "d", "e", "r", "/", "s", "u", "b", "/", "x", ".", "m", "d">>,
      <<"o", "t", "h", "e", "r", "/", "y", ".", "m", "d">>,
      <<"f", "o", "l", "d", "e", "r", "2", "/", "z", ".", "m", "d">>,
      <<"o", "t", "h", "e", "r", "/", "f", "o", "l", "d", "e", "r", "/", "v", ".", "m", "d">>>>

\* the path of the vault's root folder
RootPath == <<"/">>

\* the indexes of the "/" in a path
Slashes(path) == {k \in 1..Len(path) : path[k] = "/"}

\* file.parent.path
ParentPath(path) ==
    IF Slashes(path) = {} THEN RootPath
    ELSE Sub(path, 1, SetMax(Slashes(path)) - 1)

\* a result of getCurrentDirectory
NoDirectory == [some |-> FALSE, path |-> <<>>]

DirectoryOf(file) == [some |-> TRUE, path |-> ParentPath(file)]

getCurrentDirectory(active, leaf) ==
    IF active # NoFile THEN DirectoryOf(active)
    ELSE IF leaf # NoFile THEN DirectoryOf(leaf)
    ELSE NoDirectory

\* fileDir === currentDirectory || fileDir.startsWith(currentDirectory + '/')
InDirectory(fileDir, currentDirectory) ==
    \/ fileDir = currentDirectory
    \/ StartsWithAt(fileDir, 1, currentDirectory \o <<"/">>)

\* the files loadNodes goes through
FilterFiles(all, enabled, dir) ==
    IF enabled /\ dir.some /\ dir.path # <<>>
    THEN SelectSeq(all, LAMBDA f : InDirectory(ParentPath(f), dir.path))
    ELSE all

\* the view before any vault with folders is looked at
DirIdle ==
    /\ loadOnlyCurrentDirectory = FALSE
    /\ activeFile = NoFile
    /\ leafFile = NoFile
    /\ files = <<>>
    /\ loadedFrom = NoFile

\* no write-back under study
StoreIdle ==
    /\ doc = <<>>
    /\ before = <<>>
    /\ writes = 0
    /\ patchKind = "pos"
    /\ patchX = RInt(0)
    /\ patchY = RInt(0)
    /\ patchEdges = <<>>

StoreInit ==
    /\ IdleHost
    /\ DirIdle
    /\ handler = NoHandler
    /\ doc \in DocTexts
    /\ before = doc
    /\ writes = 0
    /\ \/ /\ patchKind = "pos"
          /\ patchX \in PatchCoords
          /\ patchY = RInt(7)
          /\ patchEdges = <<>>
       \/ /\ patchKind = "edges"
          /\ patchX = RInt(0)
          /\ patchY = RInt(0)
          /\ patchEdges \in PatchEdgeLists

\* saveNodePosition run from its read to its write with nothing in between
StoreSavePosition ==
    /\ patchKind = "pos"
    /\ writes < MaxWrites
    /\ before' = doc
    /\ doc' = saveNodePositionContent(doc, patchX, patchY)
    /\ writes' = writes + 1
    /\ UNCHANGED <<patchKind, patchX, patchY, patchEdges, hostVars, viewVars, histVars, dirVars, handler>>

\* saveEdgesToFrontmatter run from its read to its write
StoreSaveEdges ==
    /\ patchKind = "edges"
    /\ writes < MaxWrites
    /\ before' = doc
    /\ doc' = saveEdgesContent(doc, patchEdges)
    /\ writes' = writes + 1
    /\ UNCHANGED <<patchKind, patchX, patchY, patchEdges, hostVars, viewVars, histVars, dirVars, handler>>

StoreNext == StoreSavePosition \/ StoreSaveEdges

SpecStore == StoreInit /\ [][StoreNext]_vars

\* ------------------------------------------------------------------------
\* Properties of the attribute store (checked under SpecStore)
\* ------------------------------------------------------------------------

\* a line `key: ...` of the block
IsKeyLine(line, key) ==
    LET c == SkipSpaces(line, Len(key) + 1)
    IN  StartsWithAt(line, 1, key) /\ c <= Len(line) /\ line[c] = ":"

\* a dash-prefixed list line
IsDashItem(line) ==
    \E k \in 1..Len(line) : line[k] = "-" /\ \A m \in 1..(k - 1) : line[m] = " "

IsPositionLine(line) == IsKeyLine(line, KeyNodeX) \/ IsKeyLine(line, KeyNodeY)

IsEdgesLine(line) == IsKeyLine(line, KeyEdges)

\* the block's lines other than its node_x and node_y lines, in order
OtherLines(t) == SelectSeq(BlockLines(t), LAMBDA l : ~IsPositionLine(l))

\* the strings between successive pairs of double quotes of a line
RECURSIVE QuotedStrings(_)
QuotedStrings(line) ==
    LET qs == {i \in 1..Len(line) : line[i] = "\""}
    IN  IF Cardinality(qs) < 2 THEN <<>>
        ELSE LET a == SetMin(qs)
                 b == SetMin(qs \ {a})
             IN  <<Sub(line, a + 1, b - 1)>> \o QuotedStrings(Sub(line, b + 1, Len(line)))

\* the block has no edges entry, or one: a single edges line, alone when it
\* lists its targets inline, or bare and directly followed by all the
\* dash-prefixed lines of the block
EdgesWellFormed(t) ==
    LET ls == BlockLines(t)
        es == {i \in 1..Len(ls) : IsEdgesLine(ls[i])}
        ds == {i \in 1..Len(ls) : IsDashItem(ls[i])}
    IN  /\ Cardinality(es) <= 1
        /\ \A i \in ds : i > 1 /\ (i - 1 \in ds \/ i - 1 \in es)
        /\ \A i \in es : (i + 1 \in ds) => QuotedStrings(ls[i]) = <<>>

HasEdgesEntry(t) == \E i \in 1..Len(BlockLines(t)) : IsEdgesLine(BlockLines(t)[i])

\* every target the block lists: on its edges lines and its dash-prefixed lines
RECURSIVE ItemsOfLines(_)
ItemsOfLines(ls) ==
    IF ls = <<>> THEN <<>>
    ELSE (IF IsEdgesLine(Head(ls)) \/ IsDashItem(Head(ls))
          THEN QuotedStrings(Head(ls)) ELSE <<>>) \o ItemsOfLines(Tail(ls))

EntryItems(t) == ItemsOfLines(BlockLines(t))

\* C1: a write-back applied a second time, with nothing changed in between,
\* yields the text the first application produced:
\* write(write(text, patch), patch) = write(text, patch)
C1_WriteIdempotent == writes >= 2 => doc = before

\* C2: for a text that starts with an attribute block, a write-back leaves
\* the text after the closing marker line unchanged, blank lines included
C2_TailUnchanged ==
    (writes >= 1 /\ HasBlock(before))
        => (HasBlock(doc) /\ AfterBlockLines(doc) = AfterBlockLines(before))

\* C3: when the block has node_x and node_y lines, a position write-back
\* keeps every other line of the block, content and order
C3_OtherLinesKept ==
    (/\ patchKind = "pos"
     /\ writes >= 1
     /\ HasBlock(before)
     /\ \E i \in 1..Len(BlockLines(before)) : IsKeyLine(BlockLines(before)[i], KeyNodeX)
     /\ \E i \in 1..Len(BlockLines(before)) : IsKeyLine(BlockLines(before)[i], KeyNodeY))
        => (HasBlock(doc) /\ OtherLines(doc) = OtherLines(before))

\* C4: writing an empty target list removes the edges entry, whichever form
\* it had: no edges line and no dash-prefixed list line is left in the block
C4_EmptyEdgesRemoved ==
    (/\ patchKind = "edges"
     /\ patchEdges = <<>>
     /\ writes >= 1
     /\ HasBlock(before)
     /\ HasEdgesEntry(before)
     /\ EdgesWellFormed(before))
        => (/\ HasBlock(doc)
            /\ \A i \in 1..Len(BlockLines(doc)) :
                  /\ ~IsEdgesLine(BlockLines(doc)[i])
                  /\ ~IsDashItem(BlockLines(doc)[i]))

\* C5: writing a non-empty target list leaves exactly one edges entry, which
\* lists exactly the targets written, each once, with nothing left over from
\* the previous entry, inline or dash-prefixed
C5_EdgesEntryExact ==
    (/\ patchKind = "edges"
     /\ patchEdges # <<>>
     /\ writes >= 1
     /\ HasBlock(before)
     /\ EdgesWellFormed(before))
        => (/\ HasBlock(doc)
            /\ HasEdgesEntry(doc)
            /\ EdgesWellFormed(doc)
            /\ EntryItems(doc) = patchEdges)

\* the block a position write-back synthesizes, with or without the blank
\* line after it
SynthesizedBlocks(x, y) ==
    {Fenced(KeyLine(KeyNodeX, x) \o <<NL>> \o KeyLine(KeyNodeY, y)) \o blank :
        blank \in {<<>>, <<NL>>}}

\* C33: after a position write-back to a text with no attribute block, the
\* attributes read from the text written are node_x = round(x) and
\* node_y = round(y), and the text is the synthesized block followed by the
\* original text
C33_PositionRoundTrip ==
    (writes >= 1 /\ patchKind = "pos" /\ ~HasBlock(before)) =>
        /\ parseFrontmatter(doc).ok
        /\ parseFrontmatter(doc).node_x = NumVal(RInt(MathRound(patchX)))
        /\ parseFrontmatter(doc).node_y = NumVal(RInt(MathRound(patchY)))
        /\ \E block \in SynthesizedBlocks(patchX, patchY) : doc = block \o before

\* -2.5 and 7 written to a text that is a blank line and a body: read
\* back as -2 and 7
C33_HalfRoundedUp ==
    /\ writes = 1
    /\ patchKind = "pos"
    /\ before = <<NL, "b">>
    /\ patchX = Rat(0 - 5, 2)
    /\ parseFrontmatter(doc).node_x = NumVal(RInt(0 - 2))
    /\ parseFrontmatter(doc).node_y = NumVal(RInt(7))

\* ------------------------------------------------------------------------
\* Controller specification: pointer, touch and key events, write-backs in
\* flight, and the reloads the host's notifications trigger
\* ------------------------------------------------------------------------

MaxGestures == 2

\* node_x, node_y of the documents A.md and B.md
Doc_A == Fenced(KeyLine(KeyNodeX, RInt(100)) \o <<NL>> \o KeyLine(KeyNodeY, RInt(100)))
             \o <<"b">>

Doc_B == Fenced(KeyLine(KeyNodeX, RInt(200)) \o <<NL>> \o KeyLine(KeyNodeY, RInt(100)))
             \o <<"b">>

Doc_B_Edge ==
    Fenced(KeyLine(KeyNodeX, RInt(200)) \o <<NL>> \o KeyLine(KeyNodeY, RInt(100))
               \o <<NL>> \o edgesYaml(<<Str_A>>))
        \o <<"b">>

\* a note without an attribute block
Doc_C == <<"b">>

Vaults ==
    { [p \in Paths |-> IF p = Str_A THEN Doc_A ELSE IF p = Str_B THEN Doc_B ELSE Doc_C],
      [p \in Paths |-> IF p = Str_A THEN Doc_A ELSE IF p = Str_B THEN Doc_B_Edge ELSE Doc_C] }

\* where the pointer goes: on A, on B, between them, on empty canvas
Points ==
    { Pt(RInt(100), RInt(100)), Pt(RInt(200), RInt(100)),
      Pt(RInt(150), RInt(100)), Pt(RInt(150), RInt(200)) }

\* the positions a write-back can have in this.ops
OpSlots == 1..(2 * MaxGestures)

\* where the pointer crosses the border of the canvas
LeavePoint == Pt(RInt(0), RInt(100))

Init ==
    /\ StoreIdle
    /\ DirIdle
    /\ handler = NoHandler
    /\ vault \in Vaults
    /\ cache = [p \in Paths |-> parseFrontmatter(vault[p])]
    /\ stale = {}
    /\ missing = {}
    /\ NoHistory
    /\ ViewIs(OpenView(cache))

\* the edges a handler added to this.edges
Added(v) == SubSeq(v.edges, Len(edges) + 1, Len(v.edges))

\* the edges a handler removed from this.edges
Removed(v) == SelectSeq(edges, LAMBDA e : ~EdgesHas(v.edges, e.key))

\* the calls of saveEdgesToFrontmatter and saveNodePosition, out of calls,
\* that returned at once because the document was not found
Unlocated(v, calls) == calls - (Len(v.ops) - Len(ops))

\* the view and the record of deleted edges after a press handler returned v
Pressed(v) ==
    /\ SetView(v)
    /\ deleted' = deleted \o Removed(v)
    /\ abandoned' = abandoned + Unlocated(v, Len(Removed(v)))
    /\ errors' = errors

MouseDown(pos, button, shiftKey) ==
    /\ gestures < MaxGestures
    /\ gestures' = gestures + 1
    /\ Pressed(onMouseDown(View, pos, button, shiftKey))
    /\ UNCHANGED <<storeVars, dirVars, handler, hostVars, wheels, created, released, dupCalls, clicks, leaves>>

MouseMove(pos) ==
    /\ SetView(onMouseMove(View, pos))
    /\ UNCHANGED <<storeVars, dirVars, handler, hostVars, histVars>>

\* the position write-backs a handler started: path and position of the
\* node at that moment
RECURSIVE Drops(_, _)
Drops(v, newOps) ==
    IF newOps = <<>> THEN <<>>
    ELSE (IF Head(newOps).kind = "pos"
          THEN <<[path |-> Head(newOps).path,
                  x |-> v.heap[Head(newOps).node].x,
                  y |-> v.heap[Head(newOps).node].y]>>
          ELSE <<>>) \o Drops(v, Tail(newOps))

\* the view and the records of created edges and drag releases after a
\* release handler returned v
Released(v) ==
    /\ SetView(v)
    /\ created' = created \o Added(v)
    /\ released' = released \o Drops(v, SubSeq(v.ops, Len(ops) + 1, Len(v.ops)))
    /\ abandoned' = abandoned + Unlocated(v, Len(Added(v))
                                  + (IF isDragging /\ selectedNode # Null THEN 1 ELSE 0))
    /\ errors' = errors

\* createEdge is about to be called for target, and the pair has an edge
DupCallOn(target) ==
    /\ target # Null
    /\ target # edgeSourceNode
    /\ EdgesHas(edges, getEdgeKey(heap[edgeSourceNode].path, heap[target].path))

\* the release at pos calls createEdge for a pair that has an edge
DupCall(pos) ==
    edgeSourceNode # Null /\ DupCallOn(getNodeAt(View, pos.x, pos.y))

MouseUp(pos) ==
    /\ Released(onMouseUp(View, pos))
    /\ dupCalls' = dupCalls + (IF DupCall(pos) THEN 1 ELSE 0)
    /\ UNCHANGED <<storeVars, dirVars, handler, hostVars, gestures, wheels, deleted, clicks, leaves>>

MouseLeave(pos) ==
    /\ Released(onMouseLeave(View, pos))
    /\ UNCHANGED <<storeVars, dirVars, handler, hostVars, gestures, wheels, deleted, dupCalls, clicks, leaves>>

TouchStart(pos) ==
    /\ gestures < MaxGestures
    /\ gestures' = gestures + 1
    /\ SetView(onTouchStart(View, pos))
    /\ UNCHANGED <<storeVars, dirVars, handler, hostVars, wheels, created, deleted, released, dupCalls,
                   errors, abandoned, clicks, leaves>>

TouchMove(pos) ==
    /\ SetView(onTouchMove(View, pos))
    /\ UNCHANGED <<storeVars, dirVars, handler, hostVars, histVars>>

TouchEnd ==
    /\ Released(onTouchEnd(View))
    /\ UNCHANGED <<storeVars, dirVars, handler, hostVars, gestures, wheels, deleted, dupCalls, clicks, leaves>>

KeyEscape ==
    /\ SetView(onKeyDownEscape(View))
    /\ UNCHANGED <<storeVars, dirVars, handler, hostVars, histVars>>

\* vault.read of write-back i resolves: the handler computes the new text
\* and calls vault.modify
ReadDone(i) ==
    /\ i \in 1..Len(ops)
    /\ ops[i].phase = "read"
    /\ FileExists(ops[i].path)
    /\ SetView([View EXCEPT !.ops[i] =
                   [@ EXCEPT !.phase = "write",
                             !.node = Null,
                             !.content = ContentToWrite(View, ops[i], vault[ops[i].path])]])
    /\ UNCHANGED <<storeVars, dirVars, handler, hostVars, histVars>>

\* this.ops without entry i
WithoutOp(v, i) ==
    [v EXCEPT !.ops = SubSeq(@, 1, i - 1) \o SubSeq(@, i + 1, Len(@))]

\* vault.modify of write-back i takes effect; the vault's 'modify'
\* notification reloads the model from the cache as it is
WriteDone(i) ==
    /\ i \in 1..Len(ops)
    /\ ops[i].phase = "write"
    /\ FileExists(ops[i].path)
    /\ vault' = [vault EXCEPT ![ops[i].path] = ops[i].content]
    /\ stale' = stale \cup {ops[i].path}
    /\ SetView(loadNodes(WithoutOp(View, i), cache))
    /\ UNCHANGED <<storeVars, dirVars, handler, cache, missing, histVars>>

\* the metadata cache has re-read document f: its 'changed' notification
MetadataChanged(f) ==
    /\ f \in stale
    /\ stale' = stale \ {f}
    /\ cache' = [cache EXCEPT ![f] = parseFrontmatter(vault[f])]
    /\ SetView(loadNodes(View, cache'))
    /\ UNCHANGED <<storeVars, dirVars, handler, vault, missing, histVars>>

\* a 'modify' notification for an edit that leaves the attribute blocks
\* as they are
VaultModify ==
    /\ SetView(loadNodes(View, cache))
    /\ UNCHANGED <<storeVars, dirVars, handler, hostVars, histVars>>

Next ==
    \/ \E pos \in Points, button \in {0, 2}, shiftKey \in BOOLEAN :
           MouseDown(pos, button, shiftKey)
    \/ \E pos \in Points : MouseMove(pos)
    \/ \E pos \in Points : MouseUp(pos)
    \/ MouseLeave(LeavePoint)
    \/ \E pos \in Points : TouchStart(pos)
    \/ \E pos \in Points : TouchMove(pos)
    \/ TouchEnd
    \/ KeyEscape
    \/ \E i \in OpSlots : ReadDone(i)
    \/ \E i \in OpSlots : WriteDone(i)
    \/ \E f \in Paths : MetadataChanged(f)
    \/ VaultModify

Spec == Init /\ [][Next]_vars

\* ------------------------------------------------------------------------
\* Properties of the controller
\* ------------------------------------------------------------------------

\* the interaction states that are set
ActiveModes ==
    (IF isDragging THEN {"dragging"} ELSE {})
        \cup (IF isPanning THEN {"panning"} ELSE {})
        \cup (IF edgeSourceNode # Null THEN {"creatingEdge"} ELSE {})

\* C7: in every reachable state at most one of dragging a node, panning and
\* creating an edge is set.
C7_OneInteractionState == Cardinality(ActiveModes) <= 1

\* the targets document p lists, as loadNodes normalises them
ListedTargets(p) ==
    LET fm == parseFrontmatter(vault[p])
    IN  IF fm.ok /\ fm.edges.t = "array"
        THEN {IF EndsWith(fm.edges.items[k], MdSuffix) THEN fm.edges.items[k]
              ELSE fm.edges.items[k] \o MdSuffix : k \in 1..Len(fm.edges.items)}
        ELSE {}

\* C8: createEdge never adds an edge whose target document is its source
\* document, and no document's edges list ever contains the document itself.
C8_NoSelfEdge ==
    /\ \A k \in 1..Len(created) : created[k].source # created[k].target
    /\ \A p \in Paths : p \notin ListedTargets(p)

\* C9: while a node drag is in progress, the node being dragged is the
\* object the model holds under that node's id.
C9_DraggedNodeInModel ==
    (isDragging /\ selectedNode # Null)
        => NodesGet(View, heap[selectedNode].id) = selectedNode

\* C10: when the only gesture so far created an edge between two distinct
\* nodes and its write-back has completed, the source document lists the
\* target, and once the cache has caught up the rebuilt model holds the edge,
\* whatever reloads came between the creation and the write.
C10_CreatedEdgePersisted ==
    (/\ gestures = 1
     /\ Len(created) = 1
     /\ created[1].source # created[1].target
     /\ ops = <<>>)
        => /\ created[1].target \in ListedTargets(created[1].source)
           /\ (stale = {} => EdgesHas(edges, created[1].key))

\* the edges a rebuild yields once the cache holds what the documents hold
RebuiltEdges == loadNodes(View, [p \in Paths |-> parseFrontmatter(vault[p])]).edges

\* C11: when the only gesture so far deleted an edge and its write-back has
\* completed, a rebuild from the documents yields no edge between the two
\* nodes.
C11_DeletedEdgeGone ==
    (gestures = 1 /\ Len(deleted) = 1 /\ ops = <<>>)
        => ~EdgesHas(RebuiltEdges, deleted[1].key)

\* text holds node_x = round(x) and node_y = round(y)
HoldsRounded(fm, x, y) ==
    /\ fm.ok
    /\ fm.node_x = NumVal(RInt(MathRound(x)))
    /\ fm.node_y = NumVal(RInt(MathRound(y)))

\* C12: after two drag releases on the same node whose write-backs have both
\* completed, the node's document holds the rounded position of the later
\* release.
C12_LastReleaseWins ==
    (/\ gestures = 2
     /\ Len(released) = 2
     /\ released[1].path = released[2].path
     /\ ops = <<>>)
        => HoldsRounded(parseFrontmatter(vault[released[2].path]),
                        released[2].x, released[2].y)

\* C13: the text a drag release is about to write holds the rounded world
\* position the node had at the moment of the release.
C13_WritesReleasePosition ==
    Len(released) = 1
        => \A i \in 1..Len(ops) :
               (ops[i].kind = "pos" /\ ops[i].phase = "write")
                   => HoldsRounded(parseFrontmatter(ops[i].content),
                                   released[1].x, released[1].y)

\* t starts with an attribute block and has no marker line after it
SingleLeadingBlock(t) ==
    /\ HasBlock(t)
    /\ \A k \in 1..Len(AfterBlockLines(t)) : ~IsMarker(AfterBlockLines(t)[k])

\* a step that changes a document replaces its whole text with the text one
\* write-back in flight prepared, and that write-back is over
WritesWhole ==
    \A p \in Paths :
        vault'[p] # vault[p] =>
            \E i \in 1..Len(ops) :
                /\ ops[i].path = p
                /\ ops[i].phase = "write"
                /\ vault'[p] = ops[i].content
                /\ ops' = SubSeq(ops, 1, i - 1) \o SubSeq(ops, i + 1, Len(ops))

\* a write-back whose read resolves prepares the patch of the document's
\* text at that moment
ProducedFromRead ==
    \A i \in 1..Len(ops) :
        (Len(ops') = Len(ops) /\ ops[i].phase = "read" /\ ops'[i].phase = "write") =>
            ops'[i].content = ContentToWrite(View, ops[i], vault[ops[i].path])

NodeDocumentsSingleBlock ==
    \A i \in 1..Len(nodes) : SingleLeadingBlock(vault[heap[nodes[i]].path])

OneEdgePerPair ==
    \A i, j \in 1..Len(edges) :
        {edges[i].source, edges[i].target} = {edges[j].source, edges[j].target} => i = j

\* the write-backs a step starts
NewOps == SubSeq(ops', Len(ops) + 1, Len(ops'))

\* the write-backs of edge lists a step starts
NewEdgeWrites == SelectSeq(NewOps, LAMBDA op : op.kind = "edges")

\* a createEdge call for a pair that has an edge leaves this.nodes and
\* this.edges as they are and starts no write of an edge list
DupCallChangesNothing ==
    dupCalls' # dupCalls => (edges' = edges /\ nodes' = nodes /\ NewEdgeWrites = <<>>)

\* C19: the model holds at most one edge per unordered pair of documents,
\* and createEdge for a pair that has an edge, in either direction, changes
\* nothing and starts no write
C19_OneEdgePerPair == []OneEdgePerPair /\ [][DupCallChangesNothing]_vars

\* createEdge was called on the pair of an edge loaded in the other
\* direction, and the model still holds that edge alone
C19_DuplicateRejected ==
    /\ dupCalls = 1
    /\ Len(edges) = 1
    /\ created = <<>>
    /\ ops = <<>>

\* the edges a step creates or deletes
NewEdges ==
    SubSeq(created', Len(created) + 1, Len(created'))
        \o SubSeq(deleted', Len(deleted) + 1, Len(deleted'))

\* the write-backs of edge lists a step starts are for the sources of the
\* edges it creates or deletes, one each
SourceOnly ==
    /\ Len(NewEdgeWrites) = Len(NewEdges)
    /\ \A k \in 1..Len(NewEdges) : NewEdgeWrites[k].path = NewEdges[k].source

\* C20: creating or deleting an edge starts one write, to the document of
\* the edge's source; a document changes only by a write-back started for it
C20_SourceOnly == [][SourceOnly /\ WritesWhole]_vars

\* an edge was created, its write-back completed, and the target's document
\* has the text it had
C20_TargetUntouched ==
    /\ gestures = 1
    /\ Len(created) = 1
    /\ ops = <<>>
    /\ stale = {}
    /\ created[1].source # created[1].target
    /\ parseFrontmatter(vault[created[1].source]).edges = ArrayVal(<<created[1].target>>)
    /\ vault[created[1].target] \in {Doc_A, Doc_B}

\* the controller is creating an edge and nothing else
CreatingEdge == ActiveModes = {"creatingEdge"}

\* the controller is idle after the step
IdleNext == edgeSourceNode' = Null /\ ~isDragging' /\ ~isPanning'

\* the step leaves the edge set as it is and starts no write-back
Discarded == IdleNext /\ edges' = edges /\ ops' = ops

\* pos is over empty canvas or over the node of the edge source's document
OverSourceOrEmpty(pos) == PathAt(View, pos) \in {<<>>, heap[edgeSourceNode].path}

\* C22: from creating an edge, a release over empty canvas or over the
\* source node, an Escape key press, or the pointer leaving the canvas makes
\* the controller idle, leaves the edges as they are and starts no write
C22_EdgeCreationDiscarded ==
    [][CreatingEdge =>
           /\ \A pos \in Points : (OverSourceOrEmpty(pos) /\ MouseUp(pos)) => Discarded
           /\ KeyEscape => Discarded
           /\ MouseLeave(LeavePoint) => Discarded]_vars

\* pos lies in the disc drawn for node
InDisc(v, node, pos) ==
    /\ node.size.t = "num"
    /\ RLe(DistanceSq(pos.x, pos.y, worldToScreen(v, node.x, node.y)),
           RSq(RDiv(node.size.num, RInt(2))))

\* pos lies inside some node as drawn
LiesInNode(pos) == \E i \in 1..Len(nodes) : InDisc(View, heap[nodes[i]], pos)

\* C24: a press at a point inside a node never deletes an edge, whatever
\* the button and the modifier and however near an edge passes
C24_NodeBeforeEdge ==
    [][deleted' # deleted =>
           \A pos \in Points, button \in {0, 2}, shiftKey \in BOOLEAN :
               MouseDown(pos, button, shiftKey) => ~LiesInNode(pos)]_vars

\* shift was pressed on a node that an edge runs into, and the edge is kept:
\* edge creation has started
C24_PressOnNodeOverEdge ==
    /\ gestures = 1
    /\ edgeSourceNode # Null
    /\ deleted = <<>>
    /\ Len(edges) = 1
    /\ edges[1].source = heap[edgeSourceNode].path
    /\ getEdgeAt(View, worldToScreen(View, heap[edgeSourceNode].x, heap[edgeSourceNode].y).x,
                 worldToScreen(View, heap[edgeSourceNode].x, heap[edgeSourceNode].y).y) # 0

\* a node is being dragged
DraggingNode == isDragging /\ selectedNode # Null

\* a pointer move: of the mouse or of one finger
PointerMoves == \E pos \in Points : MouseMove(pos) \/ TouchMove(pos)

\* nothing but the position of the object selectedNode changes: no write is
\* started, no document written, pan, zoom, the edges and every other node
\* stay
OnlyDraggedNodeMoves ==
    /\ ops' = ops
    /\ vault' = vault
    /\ panOffset' = panOffset
    /\ zoom' = zoom
    /\ edges' = edges
    /\ nodes' = nodes
    /\ DOMAIN heap' = DOMAIN heap
    /\ \A k \in DOMAIN heap \ {selectedNode} : heap'[k] = heap[k]
    /\ heap'[selectedNode].path = heap[selectedNode].path
    /\ heap'[selectedNode].size = heap[selectedNode].size

\* C36: between the start of a node drag and its release a pointer move
\* changes only the position of the dragged node in memory
C36_MoveChangesDraggedNodeOnly ==
    [][(DraggingNode /\ PointerMoves) => OnlyDraggedNodeMoves]_vars

\* the node of A.md is being dragged, is away from the position its
\* document declares, and no write-back is pending
C36_DraggedAway ==
    /\ DraggingNode
    /\ heap[selectedNode].path = Str_A
    /\ heap[selectedNode].x # cache[Str_A].node_x.num
    /\ ops = <<>>
    /\ released = <<>>

\* ------------------------------------------------------------------------
\* Failure specification: documents deleted under the view, reads and
\* writes that fail
\* ------------------------------------------------------------------------

MaxDeleted == 1

MaxFailures == 2

\* the gestures followed through their failures
MaxFailGestures == 1

\* document f is deleted: the cache forgets it; the view subscribes to no
\* notification of it
DeleteFile(f) ==
    /\ Cardinality(missing) < MaxDeleted
    /\ FileExists(f)
    /\ missing' = missing \cup {f}
    /\ cache' = [cache EXCEPT ![f] = NoFrontmatter]
    /\ stale' = stale \ {f}
    /\ UNCHANGED <<storeVars, dirVars, handler, vault, viewVars, histVars>>

\* the catch block of write-back i: console.error, and the write-back is over
Caught(i) ==
    /\ errors < MaxFailures
    /\ SetView(WithoutOp(View, i))
    /\ errors' = errors + 1
    /\ abandoned' = abandoned + 1
    /\ UNCHANGED <<storeVars, dirVars, handler, hostVars, gestures, wheels, created, deleted, released,
                   dupCalls, clicks, leaves>>

\* vault.read of write-back i rejects
ReadFail(i) ==
    /\ i \in 1..Len(ops)
    /\ ops[i].phase = "read"
    /\ Caught(i)

\* vault.modify of write-back i rejects
WriteFail(i) ==
    /\ i \in 1..Len(ops)
    /\ ops[i].phase = "write"
    /\ Caught(i)

\* a press while fewer than MaxFailGestures gestures were made
FailMouseDown(pos, button, shiftKey) ==
    /\ gestures < MaxFailGestures
    /\ MouseDown(pos, button, shiftKey)

FailNext ==
    \/ \E pos \in Points, button \in {0, 2}, shiftKey \in BOOLEAN :
           FailMouseDown(pos, button, shiftKey)
    \/ \E pos \in Points : MouseMove(pos)
    \/ \E pos \in Points : MouseUp(pos)
    \/ \E i \in OpSlots : ReadDone(i)
    \/ \E i \in OpSlots : WriteDone(i)
    \/ \E i \in OpSlots : ReadFail(i)
    \/ \E i \in OpSlots : WriteFail(i)
    \/ \E f \in Paths : DeleteFile(f)
    \/ \E f \in Paths : MetadataChanged(f)
    \/ VaultModify

SpecFail == Init /\ [][FailNext]_vars

\* C15: every write-back that is given up (document not found, read or
\* write failed) has an entry in the error log, and giving it up in the catch
\* block leaves the interaction state as it was
C15_AbandonedReported ==
    [][/\ abandoned' - abandoned = errors' - errors
       /\ errors' # errors =>
              UNCHANGED <<selectedNode, edgeSourceNode, isDragging, isPanning>>]_vars

\* C16: after a drag release whose write-back failed, the node stays at the
\* position of the release until another gesture moves it
C16_PositionKeptAfterFailure ==
    (gestures = 1 /\ Len(released) = 1 /\ errors = 1 /\ ops = <<>>) =>
        \A i \in 1..Len(nodes) :
            heap[nodes[i]].path = released[1].path =>
                /\ heap[nodes[i]].x = released[1].x
                /\ heap[nodes[i]].y = released[1].y

\* ------------------------------------------------------------------------
\* Load specification: documents edited outside the view, the model rebuilt
\* from the cache
\* ------------------------------------------------------------------------

\* what an entry of an edges list names: a document with or without .md
LoadTargets == {<<"A">>, Str_A, <<"B">>, Str_B, Str_C}

\* where the document p puts its node
LoadPosition(p) ==
    IF p = Str_A THEN Pt(RInt(100), RInt(100))
    ELSE IF p = Str_B THEN Pt(RInt(200), RInt(100))
    ELSE Pt(RInt(150), RInt(200))

\* a document with a position and the edges list es
LoadDoc(p, es) ==
    Fenced(KeyLine(KeyNodeX, LoadPosition(p).x) \o <<NL>>
               \o KeyLine(KeyNodeY, LoadPosition(p).y)
               \o (IF es = <<>> THEN <<>> ELSE <<NL>> \o edgesYaml(es)))
        \o <<"b">>

\* a document with a position and an edges entry that is a text: edges: t
LoadDocText(p, t) ==
    Fenced(KeyLine(KeyNodeX, LoadPosition(p).x) \o <<NL>>
               \o KeyLine(KeyNodeY, LoadPosition(p).y) \o <<NL>>
               \o KeyEdges \o Colon \o t)
        \o <<"b">>

\* the texts document p can have: no block, a position, and for A.md a
\* position and one edges entry
LoadDocs(p) ==
    {Doc_C, LoadDoc(p, <<>>)}
        \cup (IF p = Str_A
              THEN {LoadDoc(p, <<t>>) : t \in LoadTargets} \cup {LoadDocText(p, Str_B)}
              ELSE {})

LoadInit ==
    /\ StoreIdle
    /\ DirIdle
    /\ handler = NoHandler
    /\ vault \in [Paths -> UNION {LoadDocs(p) : p \in Paths}]
    /\ \A p \in Paths : vault[p] \in LoadDocs(p)
    /\ cache = [p \in Paths |-> parseFrontmatter(vault[p])]
    /\ stale = {}
    /\ missing = {}
    /\ NoHistory
    /\ ViewIs(OpenView(cache))

\* document f is edited outside the view: the vault's 'modify' notification
\* reloads the model from the cache as it is
EditDocument(f, text) ==
    /\ text \in LoadDocs(f)
    /\ text # vault[f]
    /\ vault' = [vault EXCEPT ![f] = text]
    /\ stale' = stale \cup {f}
    /\ SetView(loadNodes(View, cache))
    /\ UNCHANGED <<storeVars, dirVars, handler, cache, missing, histVars>>

LoadNext ==
    \/ \E f \in Paths, text \in UNION {LoadDocs(p) : p \in Paths} : EditDocument(f, text)
    \/ \E f \in Paths : MetadataChanged(f)
    \/ VaultModify

SpecLoad == LoadInit /\ [][LoadNext]_vars

\* the paths of the nodes of the model
NodePaths == {heap[nodes[i]].path : i \in 1..Len(nodes)}

\* C17: a rebuilt model has no edge from a node to itself, also when the
\* entry names the document without its .md suffix
C17_NoSelfEdgeLoaded == \A i \in 1..Len(edges) : edges[i].source # edges[i].target

\* C18: in a rebuilt model both endpoints of every edge are nodes
C18_EndpointsAreNodes ==
    \A i \in 1..Len(edges) : edges[i].source \in NodePaths /\ edges[i].target \in NodePaths

\* targetPath with .md added where it is missing
NormalizedTarget(targetPath) ==
    IF EndsWith(targetPath, MdSuffix) THEN targetPath ELSE targetPath \o MdSuffix

\* C32: a positioned document whose edges attribute is a single text that
\* names another existing positioned document has that edge in the rebuilt
\* model, as it has with a one-element array
C32_TextEdgeLoaded ==
    \A p \in NodePaths :
        /\ cache[p].edges.t = "str"
        /\ NormalizedTarget(cache[p].edges.items[1]) \in NodePaths \ {p}
        => EdgesHas(edges, getEdgeKey(p, NormalizedTarget(cache[p].edges.items[1])))

\* ------------------------------------------------------------------------
\* Rebuild specification: the positions and sizes documents declare are
\* edited outside the view, the model rebuilt from the cache
\* ------------------------------------------------------------------------

\* a document whose attribute block holds the lines ls
NodeDoc(ls) == MakeDoc(ls, <<"b">>)

\* the lines node_x: x and node_y: y
XYLines(x, y) == <<KeyLine(KeyNodeX, RInt(x)), KeyLine(KeyNodeY, RInt(y))>>

\* the texts document p can have. A.md: no block, a position, another
\* position. B.md: no block, a position, node_x as a quoted text, node_x
\* alone. C.md: a position with node_size absent, 0, negative, positive
RebuildDocs(p) ==
    IF p = Str_A
    THEN {Doc_C, NodeDoc(XYLines(100, 100)), NodeDoc(XYLines(150, 100))}
    ELSE IF p = Str_B
    THEN {Doc_C, NodeDoc(XYLines(200, 100)),
          NodeDoc(<<KeyNodeX \o Colon \o <<"\"", "2", "\"">>,
                    KeyLine(KeyNodeY, RInt(100))>>),
          NodeDoc(<<KeyLine(KeyNodeX, RInt(200))>>)}
    ELSE {NodeDoc(XYLines(150, 200)),
          NodeDoc(XYLines(150, 200) \o <<KeyLine(KeyNodeSize, RInt(0))>>),
          NodeDoc(XYLines(150, 200) \o <<KeyLine(KeyNodeSize, RInt(0 - 5))>>),
          NodeDoc(XYLines(150, 200) \o <<KeyLine(KeyNodeSize, RInt(30))>>)}

\* every document declares a position and no size when the view opens
RebuildInit ==
    /\ StoreIdle
    /\ DirIdle
    /\ handler = NoHandler
    /\ vault = [p \in Paths |-> NodeDoc(XYLines(LoadPosition(p).x.n, LoadPosition(p).y.n))]
    /\ cache = [p \in Paths |-> parseFrontmatter(vault[p])]
    /\ stale = {}
    /\ missing = {}
    /\ NoHistory
    /\ ViewIs(OpenView(cache))

\* document f is edited outside the view: the vault's 'modify' notification
\* reloads the model from the cache as it is
EditNodeDocument(f, text) ==
    /\ text \in RebuildDocs(f)
    /\ text # vault[f]
    /\ vault' = [vault EXCEPT ![f] = text]
    /\ stale' = stale \cup {f}
    /\ SetView(loadNodes(View, cache))
    /\ UNCHANGED <<storeVars, dirVars, handler, cache, missing, histVars>>

RebuildNext ==
    \/ \E f \in Paths, text \in UNION {RebuildDocs(p) : p \in Paths} : EditNodeDocument(f, text)
    \/ \E f \in Paths : MetadataChanged(f)
    \/ VaultModify

SpecRebuild == RebuildInit /\ [][RebuildNext]_vars

\* the candidate documents whose attribute block, as the metadata cache
\* reports it, declares node_x and node_y as numbers
Qualifying ==
    {p \in Paths \ missing :
        cache[p].ok /\ cache[p].node_x.t = "num" /\ cache[p].node_y.t = "num"}

C30_SizePositive ==
    \A i \in 1..Len(nodes) :
        /\ heap[nodes[i]].size.t = "num"
        /\ RLt(RInt(0), heap[nodes[i]].size.num)
        /\ cache[heap[nodes[i]].path].node_size.t = "none"
               => heap[nodes[i]].size = NumVal(RInt(DefaultNodeSize))

\* ------------------------------------------------------------------------
\* Click specification: presses released where they were made
\* ------------------------------------------------------------------------

MaxClicks == 2

\* the last click is complete
ClicksDone == IF clicks = <<>> THEN TRUE ELSE clicks[Len(clicks)].up

\* 'mousedown' with the left button at pos: a click begins
ClickDown(pos, shiftKey) ==
    /\ Len(clicks) < MaxClicks
    /\ ClicksDone
    /\ clicks' = Append(clicks, [node |-> PathAt(View, pos), pos |-> pos,
                                 shift |-> shiftKey, up |-> FALSE])
    /\ gestures' = gestures + 1
    /\ Pressed(onMouseDown(View, pos, 0, shiftKey))
    /\ UNCHANGED <<storeVars, dirVars, handler, hostVars, wheels, created, released, dupCalls, leaves>>

\* 'mouseup' where the button went down: the click is complete
ClickUp ==
    /\ ~ClicksDone
    /\ clicks' = [clicks EXCEPT ![Len(clicks)].up = TRUE]
    /\ Released(onMouseUp(View, clicks[Len(clicks)].pos))
    /\ UNCHANGED <<storeVars, dirVars, handler, hostVars, gestures, wheels, deleted, dupCalls, leaves>>

ClickNext ==
    \/ \E pos \in Points, shiftKey \in BOOLEAN : ClickDown(pos, shiftKey)
    \/ ClickUp
    \/ \E i \in OpSlots : ReadDone(i)
    \/ \E i \in OpSlots : WriteDone(i)
    \/ \E f \in Paths : MetadataChanged(f)
    \/ VaultModify

SpecClick == Init /\ [][ClickNext]_vars

\* C21: after a shift+click on a node and a click on another node, the
\* model has an edge between the two
C21_ClickThenClickCreatesEdge ==
    (/\ Len(clicks) = 2
     /\ clicks[2].up
     /\ clicks[1].shift
     /\ clicks[1].node # <<>>
     /\ clicks[2].node # <<>>
     /\ clicks[2].node # clicks[1].node)
        => EdgesHas(edges, getEdgeKey(clicks[1].node, clicks[2].node))

\* ------------------------------------------------------------------------
\* Leave specification: the pointer leaves the canvas during a gesture
\* ------------------------------------------------------------------------

\* 'mouseleave' during a drag or a pan
LeaveDuring(pos) ==
    /\ isDragging \/ isPanning
    /\ leaves' = leaves + 1
    /\ Released(onMouseLeave(View, pos))
    /\ UNCHANGED <<storeVars, dirVars, handler, hostVars, gestures, wheels, deleted, dupCalls, clicks>>

LeaveNext ==
    \/ \E pos \in Points, button \in {0, 2}, shiftKey \in BOOLEAN :
           MouseDown(pos, button, shiftKey)
    \/ \E pos \in Points : MouseMove(pos)
    \/ \E pos \in Points : MouseUp(pos)
    \/ LeaveDuring(LeavePoint)
    \/ \E pos \in Points : TouchStart(pos)
    \/ KeyEscape
    \/ VaultModify

SpecLeave == Init /\ [][LeaveNext]_vars

\* the write-backs of positions among ws
PositionWrites(ws) == SelectSeq(ws, LAMBDA op : op.kind = "pos")

\* C23: the pointer leaving the canvas during a drag or a pan leaves the
\* controller idle, and a drag gets the position write-back a release there
\* would start
C23_LeaveEndsGesture ==
    [][leaves' # leaves =>
           /\ IdleNext
           /\ PositionWrites(ops') = PositionWrites(onMouseUp(View, LeavePoint).ops)]_vars

\* the pointer left the canvas during a drag: the controller is idle and the
\* position write-back of the dragged node is in flight
C23_DragEndedByLeave ==
    /\ leaves = 1
    /\ Len(released) = 1
    /\ ActiveModes = {}
    /\ Len(ops) = 1
    /\ ops[1].kind = "pos"
    /\ ops[1].path = released[1].path

\* ------------------------------------------------------------------------
\* Transform specification: wheel zoom and panning on a canvas without nodes
\* ------------------------------------------------------------------------

MaxWheels == 2

ViewInit == StoreIdle /\ DirIdle /\ handler = NoHandler /\ IdleHost

Wheel(pos, deltaYPositive) ==
    /\ wheels < MaxWheels
    /\ wheels' = wheels + 1
    /\ SetView(onWheel(View, pos, deltaYPositive))
    /\ UNCHANGED <<storeVars, dirVars, handler, hostVars, gestures, created, deleted, released, dupCalls,
                   errors, abandoned, clicks, leaves>>

ViewNext ==
    \/ \E pos \in Points, deltaYPositive \in BOOLEAN : Wheel(pos, deltaYPositive)
    \/ \E pos \in Points : MouseDown(pos, 0, FALSE)
    \/ \E pos \in Points : MouseMove(pos)
    \/ \E pos \in Points : MouseUp(pos)

SpecView == ViewInit /\ [][ViewNext]_vars

\* |a - b| <= 1/1000
Close(a, b) == RLe(RSub(a, b), Rat(1, 1000)) /\ RLe(RSub(b, a), Rat(1, 1000))

\* C6: for either wheel direction and every screen point P, the world point
\* screenToWorld(P) gives after the wheel handler has changed zoom and
\* adjusted pan equals the one it gave before the event.
C6_ZoomAtPoint ==
    [][\A pos \in Points, deltaYPositive \in BOOLEAN :
          Wheel(pos, deltaYPositive)
              => LET old == screenToWorld(View, pos.x, pos.y)
                     new == screenToWorld([panOffset |-> panOffset', zoom |-> zoom'],
                                          pos.x, pos.y)
                 IN  Close(new.x, old.x) /\ Close(new.y, old.y)]_vars

\* ------------------------------------------------------------------------
\* Field specification: the zoom and centre fields of the control strip,
\* and the wheel
\* ------------------------------------------------------------------------

\* what the user leaves in the zoom field
ZoomTexts ==
    { <<"a", "b", "c">>, <<"0", ".", "0", "5">>, <<"0", ".", "5">>, <<"2">>, <<"7">> }

\* what the user leaves in a centre field
CenterTexts == { <<"a", "b", "c">>, <<"-", "5", "0">>, <<"1", "2", ".", "5">> }

\* 'change' or 'input' of the zoom field holding text
ZoomField(text) ==
    /\ SetView(updateZoomFromInput(View, text))
    /\ UNCHANGED <<storeVars, dirVars, handler, hostVars, histVars>>

\* 'change' of a centre field, the two fields holding textX and textY
CenterField(textX, textY) ==
    /\ SetView(updateCenterFromInputs(View, textX, textY))
    /\ UNCHANGED <<storeVars, dirVars, handler, hostVars, histVars>>

FieldNext ==
    \/ \E text \in ZoomTexts : ZoomField(text)
    \/ \E textX \in CenterTexts, textY \in CenterTexts : CenterField(textX, textY)
    \/ \E pos \in Points, deltaYPositive \in BOOLEAN : Wheel(pos, deltaYPositive)

SpecField == ViewInit /\ [][FieldNext]_vars

\* the zoom field's text is no number, or a number outside [0.1, 5]
Rejected(text) ==
    \/ parseFloat(text).nan
    \/ RLt(parseFloat(text).num, ZoomMin)
    \/ RLt(ZoomMax, parseFloat(text).num)

\* C25: a zoom field value that is no number or lies outside [0.1, 5] is
\* rejected: zoom and pan are after the handler what they were before
C25_BadZoomRejected ==
    [][\A text \in ZoomTexts :
           (Rejected(text) /\ ZoomField(text)) =>
               (zoom' = zoom /\ panOffset' = panOffset)]_vars

\* C26: the zoom lies in [0.1, 5] after any wheel events and any edits of
\* the zoom field
C26_ZoomInRange == RLe(ZoomMin, zoom) /\ RLe(zoom, ZoomMax)

\* the world point at the centre of the canvas for a pan and a zoom
CenterOf(pan, z) == getCenterWorldCoordinate([panOffset |-> pan, zoom |-> z])

\* the wheel has turned at a limit of the zoom (the centre is still that of
\* the view as opened), and the zoom is the upper limit
C26_WheelAtLimit ==
    /\ wheels = 1
    /\ zoom = ZoomMax
    /\ CenterOf(panOffset, zoom) = CenterOf(Pt(RInt(0), RInt(0)), RInt(1))

\* C27: an edit of the zoom field keeps the centre of view: the world point
\* at the centre of the canvas is after the handler the one before it
C27_ZoomFieldKeepsCenter ==
    [][\A text \in ZoomTexts :
           ZoomField(text) => CenterOf(panOffset', zoom') = CenterOf(panOffset, zoom)]_vars

\* the zoom field has changed the zoom on a view whose centre was set by the
\* centre fields, and the centre is where they put it
C27_ZoomedAboutCenter ==
    /\ wheels = 0
    /\ zoom = RInt(2)
    /\ CenterOf(panOffset, zoom) = Pt(RInt(-50), Rat(25, 2))

\* the points taken through the two transforms
RoundTripPoints == Points \cup {Pt(Rat(-7, 2), RInt(0))}

\* C28: for the pan and zoom of every state and every point p,
\* screenToWorld(worldToScreen(p)) = p and worldToScreen(screenToWorld(p)) = p
C28_TransformsInverse ==
    \A p \in RoundTripPoints :
        /\ screenToWorld(View, worldToScreen(View, p.x, p.y).x,
                         worldToScreen(View, p.x, p.y).y) = p
        /\ worldToScreen(View, screenToWorld(View, p.x, p.y).x,
                         screenToWorld(View, p.x, p.y).y) = p

\* the transforms are taken at a zoom other than 1 and a pan other than 0
C28_ZoomedAndPanned ==
    /\ zoom = Rat(1, 2)
    /\ panOffset.x # RInt(0)
    /\ panOffset.y # RInt(0)
    /\ worldToScreen(View, RInt(100), RInt(100)) # Pt(RInt(100), RInt(100))


\* ------------------------------------------------------------------------
\* Directory specification: the setting toggled, files opened, the model
\* reloaded in a vault with folders
\* ------------------------------------------------------------------------

DirFileSet == {DirFiles[i] : i \in 1..Len(DirFiles)}

\* the filter part of loadNodes with the setting and the workspace given
LoadFiltered(enabled, active, leaf) ==
    /\ files' = FilterFiles(DirFiles, enabled, getCurrentDirectory(active, leaf))
    /\ loadedFrom' = IF ~enabled THEN NoFile
                      ELSE IF active # NoFile THEN active
                      ELSE leaf

DirInit ==
    /\ StoreIdle
    /\ IdleHost
    /\ loadOnlyCurrentDirectory = FALSE
    /\ activeFile \in DirFileSet \cup {NoFile}
    /\ leafFile \in DirFileSet \cup {NoFile}
    /\ files = DirFiles
    /\ loadedFrom = NoFile
    /\ handler = NoHandler

\* the toggle of the settings tab: saveSettings calls updateSettings of the
\* view, which reloads
ToggleSetting ==
    /\ loadOnlyCurrentDirectory' = ~loadOnlyCurrentDirectory
    /\ LoadFiltered(loadOnlyCurrentDirectory', activeFile, leafFile)
    /\ UNCHANGED <<activeFile, leafFile, storeVars, hostVars, viewVars, histVars, handler>>

\* the workspace's 'file-open': the active file is now f (NoFile: a view
\* without a file); the model is reloaded if the setting is on
FileOpen(f) ==
    /\ f # activeFile
    /\ activeFile' = f
    /\ IF loadOnlyCurrentDirectory
       THEN LoadFiltered(TRUE, f, leafFile)
       ELSE UNCHANGED <<files, loadedFrom>>
    /\ UNCHANGED <<loadOnlyCurrentDirectory, leafFile, storeVars, hostVars, viewVars, histVars, handler>>

\* the first markdown leaf now shows f: no subscription of the view
LeafChanged(f) ==
    /\ f # leafFile
    /\ leafFile' = f
    /\ UNCHANGED <<loadOnlyCurrentDirectory, activeFile, files, loadedFrom,
                   storeVars, hostVars, viewVars, histVars, handler>>

\* a 'modify' or 'changed' notification: loadNodes
DirReload ==
    /\ LoadFiltered(loadOnlyCurrentDirectory, activeFile, leafFile)
    /\ UNCHANGED <<loadOnlyCurrentDirectory, activeFile, leafFile,
                   storeVars, hostVars, viewVars, histVars, handler>>

DirNext ==
    \/ ToggleSetting
    \/ \E f \in DirFileSet \cup {NoFile} : FileOpen(f)
    \/ \E f \in DirFileSet \cup {NoFile} : LeafChanged(f)
    \/ DirReload

SpecDir == DirInit /\ [][DirNext]_vars

\* the names between the "/" of a path
RECURSIVE Segments(_)
Segments(path) ==
    IF Slashes(path) = {} THEN <<path>>
    ELSE <<Sub(path, 1, SetMin(Slashes(path)) - 1)>>
         \o Segments(Sub(path, SetMin(Slashes(path)) + 1, Len(path)))

\* the folders that lead to a document, from the root of the vault
FolderOf(file) == Sub(Segments(file), 1, Len(Segments(file)) - 1)

\* folder inner is folder outer or lies under it
NestedIn(inner, outer) ==
    Len(outer) <= Len(inner) /\ Sub(inner, 1, Len(outer)) = outer

\* C31: with the filter on and a current directory D determined, the
\* candidate documents of a rebuild are exactly the documents whose folder
\* is D or lies under D
C31_FilterByDirectory ==
    (loadOnlyCurrentDirectory /\ loadedFrom # NoFile) =>
        {files[i] : i \in 1..Len(files)}
            = {f \in DirFileSet : NestedIn(FolderOf(f), FolderOf(loadedFrom))}


\* ------------------------------------------------------------------------
\* Properties of the edge key (checked under SpecLeave)
\* ------------------------------------------------------------------------

\* document ids: with and without suffix, with folders, one a prefix of
\* another
EdgeIds == Paths \cup LoadTargets \cup DirFileSet

\* C34: the key of an edge is the same for both orders of its two ids: for
\* every pair of ids, and for the edges the model holds
C34_KeySymmetric ==
    /\ \A a, b \in EdgeIds : getEdgeKey(a, b) = getEdgeKey(b, a)
    /\ \A i \in 1..Len(edges) :
           edges[i].key = getEdgeKey(edges[i].target, edges[i].source)

\* an edge drawn from B.md to A.md is held under the key A.md|B.md
C34_EdgeDrawnBackwards ==
    \E i \in 1..Len(created) :
        /\ created[i].source = Str_B
        /\ created[i].target = Str_A
        /\ created[i].key = Str_A \o <<"|">> \o Str_B


\* ------------------------------------------------------------------------
\* Binding specification: the handlers that write the fields of the control
\* strip taken in two steps, the fields' listeners called in between
\* ------------------------------------------------------------------------

\* updateZoomFromInput up to the write of the zoom field (main.ts:710-711)
ZoomFieldBegin(text) ==
    /\ handler = NoHandler
    /\ ~isUpdatingFromInputs
    /\ ~parseFloat(text).nan
    /\ SetView([updateZoomFromInput(View, text) EXCEPT !.isUpdatingFromInputs = TRUE])
    /\ handler' = [by |-> "zoom", reentered |-> FALSE]
    /\ UNCHANGED <<storeVars, dirVars, hostVars, histVars>>

\* a wheel event up to the writes of updateInputsFromState (main.ts:734-739)
WheelBegin(pos, deltaYPositive) ==
    /\ handler = NoHandler
    /\ ~isUpdatingFromInputs
    /\ wheels < MaxWheels
    /\ wheels' = wheels + 1
    /\ SetView([onWheel(View, pos, deltaYPositive) EXCEPT !.isUpdatingFromInputs = TRUE])
    /\ handler' = [by |-> "inputs", reentered |-> FALSE]
    /\ UNCHANGED <<storeVars, dirVars, hostVars, gestures, created, deleted, released,
                   dupCalls, errors, abandoned, clicks, leaves>>

\* the rest of the handler: this.isUpdatingFromInputs = false
HandlerEnd ==
    /\ handler.by # "none"
    /\ SetView([View EXCEPT !.isUpdatingFromInputs = FALSE])
    /\ handler' = NoHandler
    /\ UNCHANGED <<storeVars, dirVars, hostVars, histVars>>

\* the zoom field's listener called while a handler writes the fields
ZoomListener(text) ==
    /\ handler.by # "none"
    /\ SetView(updateZoomFromInput(View, text))
    /\ handler' = [handler EXCEPT !.reentered = TRUE]
    /\ UNCHANGED <<storeVars, dirVars, hostVars, histVars>>

\* a centre field's listener called while a handler writes the fields
CenterListener(textX, textY) ==
    /\ handler.by # "none"
    /\ SetView(updateCenterFromInputs(View, textX, textY))
    /\ handler' = [handler EXCEPT !.reentered = TRUE]
    /\ UNCHANGED <<storeVars, dirVars, hostVars, histVars>>

BindingNext ==
    \/ \E text \in ZoomTexts : ZoomFieldBegin(text)
    \/ \E pos \in Points, deltaYPositive \in BOOLEAN : WheelBegin(pos, deltaYPositive)
    \/ HandlerEnd
    \/ \E text \in ZoomTexts : ZoomListener(text)
    \/ \E textX \in CenterTexts, textY \in CenterTexts : CenterListener(textX, textY)

SpecBinding == ViewInit /\ [][BindingNext]_vars

\* a listener of a field runs
ListenerRuns ==
    \/ \E text \in ZoomTexts : ZoomListener(text)
    \/ \E textX \in CenterTexts, textY \in CenterTexts : CenterListener(textX, textY)

\* C35: isUpdatingFromInputs is false whenever no handler is running, and a
\* field's listener that runs while it is set leaves zoom and pan as they
\* are
C35_NoReentry ==
    /\ [](handler = NoHandler => ~isUpdatingFromInputs)
    /\ [][(isUpdatingFromInputs /\ ListenerRuns)
              => (zoom' = zoom /\ panOffset' = panOffset)]_vars

\* the zoom field's write was answered by a listener, and zoom is the
\* clamped 5 the handler set
C35_ListenerDuringWrite ==
    /\ handler = [by |-> "zoom", reentered |-> TRUE]
    /\ isUpdatingFromInputs
    /\ zoom = ZoomMax


\* ------------------------------------------------------------------------
\* Hit specification: vaults with up to three edges, the view zoomed by the
\* wheel, the pointer moved over the canvas
\* ------------------------------------------------------------------------

\* the texts document p can have. A.md: a position and edges to B.md and
\* C.md in either order, or no edges. B.md: its position with or without an
\* edge to C.md, or the position of A.md. C.md: a position or no block
HitDocs(p) ==
    IF p = Str_A
    THEN {LoadDoc(p, <<Str_B, Str_C>>), LoadDoc(p, <<Str_C, Str_B>>), LoadDoc(p, <<>>)}
    ELSE IF p = Str_B
    THEN {LoadDoc(p, <<Str_C>>), LoadDoc(p, <<>>), NodeDoc(XYLines(100, 100))}
    ELSE {LoadDoc(p, <<>>), Doc_C}

HitInit ==
    /\ StoreIdle
    /\ DirIdle
    /\ handler = NoHandler
    /\ vault \in [Paths -> UNION {HitDocs(p) : p \in Paths}]
    /\ \A p \in Paths : vault[p] \in HitDocs(p)
    /\ cache = [p \in Paths |-> parseFrontmatter(vault[p])]
    /\ stale = {}
    /\ missing = {}
    /\ NoHistory
    /\ ViewIs(OpenView(cache))

HitNext ==
    \/ \E pos \in Points, deltaYPositive \in BOOLEAN : Wheel(pos, deltaYPositive)
    \/ \E pos \in Points : MouseMove(pos)

SpecHit == HitInit /\ [][HitNext]_vars

\* where the pointer is tried: on a node two edges leave, on an edge, 4 and
\* 5 pixels off it, near two edges, half way along the other edges
HitPoints ==
    { Pt(RInt(100), RInt(100)), Pt(RInt(150), RInt(100)), Pt(RInt(150), RInt(104)),
      Pt(RInt(150), RInt(105)), Pt(RInt(102), RInt(101)), Pt(RInt(125), RInt(150)),
      Pt(RInt(175), RInt(150)) }

\* the edges whose two endpoints are nodes
DrawnEdges == {i \in 1..Len(edges) :
                  NodesGet(View, edges[i].source) # Null
                      /\ NodesGet(View, edges[i].target) # Null}

\* the square of the distance on screen from pt to the segment of edge i
HitDistanceSq(i, pt) == EdgeDistanceSq(View, edges[i], pt.x, pt.y)

\* the drawn edges less than 5 pixels from pt
NearEdges(pt) ==
    {i \in DrawnEdges : RLt(HitDistanceSq(i, pt), RSq(RInt(EdgeThreshold)))}

\* r is what the hit test has to answer at pt
ClosestNearEdge(r, pt) ==
    IF NearEdges(pt) = {} THEN r = 0
    ELSE /\ r \in NearEdges(pt)
         /\ \A j \in NearEdges(pt) :
                /\ RLe(HitDistanceSq(r, pt), HitDistanceSq(j, pt))
                /\ HitDistanceSq(j, pt) = HitDistanceSq(r, pt) => r <= j

\* C37: the hit test answers, among the edges with both endpoints nodes and
\* a segment less than 5 pixels from the point, the one with the smallest
\* distance, the first found on ties, and no edge when there is none
C37_ClosestEdgeHit ==
    \A pt \in HitPoints : ClosestNearEdge(getEdgeAt(View, pt.x, pt.y), pt)

\* at (102, 101) two edges are near and the second found is the closer one;
\* at the node both leave the two tie and the first found is answered
C37_SecondEdgeCloser ==
    /\ Cardinality(NearEdges(Pt(RInt(102), RInt(101)))) = 2
    /\ getEdgeAt(View, RInt(102), RInt(101)) = 2
    /\ Cardinality(NearEdges(Pt(RInt(100), RInt(100)))) = 2
    /\ getEdgeAt(View, RInt(100), RInt(100)) = 1


\* ------------------------------------------------------------------------
\* Entries specification: one gesture on a vault whose edges entries list
\* more than the edges of the model
\* ------------------------------------------------------------------------

\* a document that does not exist
Str_X == <<"X", ".", "m", "d">>

\* edges: ["a", "b"]
RECURSIVE QuotedItems(_)
QuotedItems(es) ==
    IF Len(es) = 1 THEN Q(es[1]) ELSE Q(es[1]) \o <<",", " ">> \o QuotedItems(Tail(es))

\* a document with a position and the edges list es on one line
EntryDoc(p, es) ==
    Fenced(KeyLine(KeyNodeX, LoadPosition(p).x) \o <<NL>>
               \o KeyLine(KeyNodeY, LoadPosition(p).y) \o <<NL>>
               \o KeyEdges \o Colon \o <<"[">> \o QuotedItems(es) \o <<"]">>)
        \o <<"b">>

\* the three documents have positions. A.md lists X.md, which does not
\* exist, and B.md; or A.md and B.md list each other; or A.md lists B.md
\* and C.md
EntryVaults ==
    { [p \in Paths |-> IF p = Str_A THEN EntryDoc(p, <<Str_X, Str_B>>) ELSE LoadDoc(p, <<>>)],
      [p \in Paths |-> IF p = Str_A THEN EntryDoc(p, <<Str_B>>)
                       ELSE IF p = Str_B THEN EntryDoc(p, <<Str_A>>)
                       ELSE LoadDoc(p, <<>>)],
      [p \in Paths |-> IF p = Str_A THEN EntryDoc(p, <<Str_B, Str_C>>) ELSE LoadDoc(p, <<>>)] }

EntryInit ==
    /\ StoreIdle
    /\ DirIdle
    /\ handler = NoHandler
    /\ vault \in EntryVaults
    /\ cache = [p \in Paths |-> parseFrontmatter(vault[p])]
    /\ stale = {}
    /\ missing = {}
    /\ NoHistory
    /\ ViewIs(OpenView(cache))

EntryNext ==
    \/ \E pos \in Points, button \in {0, 2}, shiftKey \in BOOLEAN :
           FailMouseDown(pos, button, shiftKey)
    \/ \E pos \in Points : MouseMove(pos)
    \/ \E pos \in Points : MouseUp(pos)
    \/ \E i \in OpSlots : ReadDone(i)
    \/ \E i \in OpSlots : WriteDone(i)
    \/ \E f \in Paths : MetadataChanged(f)

SpecEntries == EntryInit /\ [][EntryNext]_vars

\* the targets the edges entry of a text lists
EntriesOf(text) ==
    IF parseFrontmatter(text).ok /\ parseFrontmatter(text).edges.t = "array"
    THEN {parseFrontmatter(text).edges.items[k] :
              k \in 1..Len(parseFrontmatter(text).edges.items)}
    ELSE {}

\* the edges created or deleted so far
ChangedEdges ==
    {created[k] : k \in 1..Len(created)} \cup {deleted[k] : k \in 1..Len(deleted)}

\* C38: a write that follows the creation or deletion of an edge of a
\* source document leaves every other target of that document's edges
\* entry listed
C38_OtherTargetsKept ==
    [][\A e \in ChangedEdges :
          vault'[e.source] # vault[e.source] =>
              \A t \in EntriesOf(vault[e.source]) :
                  NormalizedTarget(t) \notin {e.source, e.target}
                      => t \in EntriesOf(vault'[e.source])]_vars


\* ------------------------------------------------------------------------
\* Press specification: clicks on a vault whose document A.md declares a
\* position that is not a whole number
\* ------------------------------------------------------------------------

\* A.md with node_x: 100.5
Doc_A_Half ==
    Fenced(KeyNodeX \o Colon \o <<"1", "0", "0", ".", "5">> \o <<NL>>
               \o KeyLine(KeyNodeY, RInt(100)))
        \o <<"b">>

\* the vault when the view opens
PressVault ==
    [p \in Paths |-> IF p = Str_A THEN Doc_A_Half ELSE IF p = Str_B THEN Doc_B ELSE Doc_C]

PressInit ==
    /\ StoreIdle
    /\ DirIdle
    /\ handler = NoHandler
    /\ vault = PressVault
    /\ cache = [p \in Paths |-> parseFrontmatter(vault[p])]
    /\ stale = {}
    /\ missing = {}
    /\ NoHistory
    /\ ViewIs(OpenView(cache))

SpecPress == PressInit /\ [][ClickNext]_vars

\* C39: presses released where they were made, with no pointer move in
\* between, leave the text of every document as it was, whatever node_x and
\* node_y it declares
C39_ClickLeavesText == \A p \in Paths : vault[p] = PressVault[p]

====
